---- MODULE Spec2Model ----
(***************************************************************************)
(* A model of the log segmentation engine of grafana_uploader              *)
(* (src/log_analyzer.py): LogAnalyzer.analyze reads a CSV stream row by    *)
(* row and builds an AnalysisResult (flat log, race time ranges, per-race  *)
(* section changes).                                                       *)
(*                                                                         *)
(* Text values (CSV cells, column names, timestamps) are sequences of      *)
(* tokens; the token " " is one whitespace character and every other      *)
(* token is a run of non-whitespace characters.  The empty text is <<>>.  *)
(* Enum members are the integers of the IntEnum classes.                   *)
(***************************************************************************)
EXTENDS Integers, Sequences, FiniteSets, TLC

\* ------------------------------------------------------------------ bounds
\* Rows read by one pass of analyze (Spec), with the full range of area
\* cells (SpecArea), and calls of analyze on the one instance (SpecRerun).
MaxRows == 4
MaxRowsArea == 3
MaxCalls == 3

\* ------------------------------------------------------- enums and tables
GPS_UNKNOWN == 99
GPS_AREA == (0 .. 11) \cup {GPS_UNKNOWN}

SECTION_BOARDINGIC == 8
SECTION_UNKNOWN == 99

MODE_TABLE ==
  (0 :> "ENTERING" @@ 1 :> "DOWNHILL" @@ 2 :> "UPHILL_STANDBY" @@
   3 :> "UPHILL" @@ 4 :> "UPHILL_SLOWDOWN" @@ 5 :> "LANDING_IC" @@
   6 :> "LANDING" @@ 7 :> "GARAGE" @@ 9 :> "BOARDING" @@ 8 :> "BOARDING_IC")

STR_TO_ENUM ==
  [ENTERING |-> 0, DOWNHILL |-> 1, UPHILL_STANDBY |-> 2, UPHILL |-> 3,
   UPHILL_SLOWDOWN |-> 4, LANDING_IC |-> 5, LANDING |-> 6, GARAGE |-> 7,
   BOARDING |-> 9, BOARDING_IC |-> 8]

\* Python's None where an int is expected, None where a str is expected, and
\* a local variable that no assignment has bound yet.
NoneInt == -1
NoneStr == <<"<None>">>
Unbound == -2

\* ------------------------------------------------------------ text values
WS == " "

RECURSIVE LStrip(_)
LStrip(s) == IF s # <<>> /\ Head(s) = WS THEN LStrip(Tail(s)) ELSE s

RECURSIVE RStrip(_)
RStrip(s) ==
  IF s # <<>> /\ s[Len(s)] = WS THEN RStrip(SubSeq(s, 1, Len(s) - 1)) ELSE s

\* str.strip()
Strip(s) == RStrip(LStrip(s))

\* str.lower(), on the letters the column names of the model use
LowerTable == [Time |-> "time", TIME |-> "time", Section |-> "section",
               SECTION |-> "section", Area |-> "area", AREA |-> "area"]

Lower(s) ==
  [j \in DOMAIN s |-> IF s[j] \in DOMAIN LowerTable THEN LowerTable[s[j]] ELSE s[j]]

\* int(str): surrounding whitespace is accepted; anything but one run of
\* decimal digits raises ValueError (IsInt is then FALSE)
IntTable == ("3" :> 3 @@ "5" :> 5 @@ "10" :> 10 @@ "50" :> 50 @@ "99" :> 99)

IsInt(s) == Len(Strip(s)) = 1 /\ Strip(s)[1] \in DOMAIN IntTable

ParseInt(s) == IntTable[Strip(s)[1]]

\* ------------------------------------------------------------ dict helpers
EmptyDict == <<>>

DictSet(d, k, v) == [x \in (DOMAIN d) \cup {k} |-> IF x = k THEN v ELSE d[x]]

\* ------------------------------------------------------------ result model
EmptyResult ==
  [first_time |-> NoneStr, last_time |-> NoneStr, total_race_count |-> 0,
   logs |-> <<>>, race_times |-> EmptyDict, race_section_changes |-> EmptyDict]

LogEntry(time, context, log_type, area_id, section_id) ==
  [time |-> time, context |-> context, log_type |-> log_type,
   area_id |-> area_id, section_id |-> section_id]

RaceBanner(n) ==
  "============== RACE " \o ToString(n) \o " START =============="

\* _add_log inserting the new entry at the front of logs
_add_log_front(res, time, context, log_type, area_id, section_id) ==
  [res EXCEPT !.logs = <<LogEntry(time, context, log_type, area_id, section_id)>> \o @]

\* LogAnalyzer._add_log, on the AnalysisResult res that self.result names
_add_log(res, time, context, log_type, area_id, section_id) ==
  [res EXCEPT !.logs = Append(@, LogEntry(time, context, log_type, area_id, section_id))]

\* _record_section_change comparing the section only with the last entry's
_record_section_change_samesection(res, race_count, section_id, time) ==
  LET new_entry == <<section_id, time>>
      changes_list ==
        IF race_count \in DOMAIN res.race_section_changes
        THEN res.race_section_changes[race_count] ELSE <<>>
      appended ==
        IF changes_list = <<>> \/ changes_list[Len(changes_list)][1] # section_id
        THEN Append(changes_list, new_entry) ELSE changes_list
  IN  [res EXCEPT !.race_section_changes = DictSet(@, race_count, appended)]

\* _record_section_change without the comparison with the last entry
_record_section_change_always(res, race_count, section_id, time) ==
  LET changes_list ==
        IF race_count \in DOMAIN res.race_section_changes
        THEN res.race_section_changes[race_count] ELSE <<>>
  IN  [res EXCEPT !.race_section_changes =
         DictSet(@, race_count, Append(changes_list, <<section_id, time>>))]

\* LogAnalyzer._record_section_change
_record_section_change(res, race_count, section_id, time) ==
  LET new_entry == <<section_id, time>>
      changes_list ==
        IF race_count \in DOMAIN res.race_section_changes
        THEN res.race_section_changes[race_count] ELSE <<>>
      appended ==
        IF changes_list = <<>> \/ changes_list[Len(changes_list)] # new_entry
        THEN Append(changes_list, new_entry) ELSE changes_list
  IN  [res EXCEPT !.race_section_changes = DictSet(@, race_count, appended)]

\* _add_section_change_log skipping the log entry too when it repeats the last
_add_section_change_log_dedup(res, race_count, time, current_area_id, section_id) ==
  LET context ==
        IF section_id \in DOMAIN MODE_TABLE THEN MODE_TABLE[section_id]
        ELSE "SECTION_UNKNOWN"
      entry == LogEntry(time, context, "SECTION_CHANGE", current_area_id, section_id)
  IN  IF res.logs # <<>> /\ res.logs[Len(res.logs)] = entry THEN res
      ELSE _record_section_change(
             _add_log(res, time, context, "SECTION_CHANGE", current_area_id, section_id),
             race_count, section_id, time)

\* LogAnalyzer._add_section_change_log
_add_section_change_log(res, race_count, time, current_area_id, section_id) ==
  LET context ==
        IF section_id \in DOMAIN MODE_TABLE THEN MODE_TABLE[section_id]
        ELSE "SECTION_UNKNOWN"
  IN  _record_section_change(
        _add_log(res, time, context, "SECTION_CHANGE", current_area_id, section_id),
        race_count, section_id, time)

\* ---------------------------------------------------------- csv.DictReader
\* reader.fieldnames after line 140: the header's names, stripped.  A file
\* with no line at all has fieldnames None; the header <<>> stands for it.
StripAll(names) == [j \in DOMAIN names |-> Strip(names[j])]

\* next((k for k in fieldnames if k.strip().lower() == name), None)
RECURSIVE FindKey(_, _)
FindKey(names, name) ==
  IF names = <<>> THEN NoneStr
  ELSE IF Lower(Strip(Head(names))) = name THEN Head(names)
  ELSE FindKey(Tail(names), name)

\* The dict DictReader yields for one line: fieldname -> cell, None for the
\* cells a short line lacks (restval).
RowDict(names, line) ==
  [k \in {names[j] : j \in DOMAIN names} |->
     LET j == CHOOSE x \in DOMAIN names :
                names[x] = k /\ \A y \in DOMAIN names : names[y] = k => y <= x
     IN  IF j <= Len(line) THEN line[j] ELSE NoneStr]

\* ------------------------------------------------------- LogAnalyzer.analyze
\* The state one pass works on: res is the AnalysisResult self.result names,
\* prev_area/prev_section/race_count the instance fields, the rest the locals
\* of analyze; exc is "" or the name of the exception the pass has raised.
Raise(f, e) == [f EXCEPT !.exc = e]

\* STR_TO_ENUM.get(section_str, GrSections.SECTION_UNKNOWN)
SectionOf(section_str) ==
  IF Len(section_str) = 1 /\ section_str[1] \in DOMAIN STR_TO_ENUM
  THEN STR_TO_ENUM[section_str[1]] ELSE SECTION_UNKNOWN

\* lines 155-162: the area of the row; ValueError and KeyError are absorbed,
\* the AttributeError of None.strip() is not
ParseArea(f, row, area_key) ==
  LET f0 == [f EXCEPT !.current_area_id = GPS_UNKNOWN]
  IN  IF area_key = NoneStr THEN f0
      ELSE IF area_key \notin DOMAIN row THEN f0
      ELSE IF row[area_key] = NoneStr THEN Raise(f0, "AttributeError")
      ELSE IF Strip(row[area_key]) = <<>> THEN f0
      ELSE IF ~IsInt(row[area_key]) THEN f0
      ELSE LET area_int == ParseInt(row[area_key])
           IN  IF area_int \in GPS_AREA
               THEN [f0 EXCEPT !.area_int = area_int, !.current_area_id = area_int]
               ELSE [f0 EXCEPT !.area_int = area_int]

\* lines 165-176: the first row opens race 0
FirstRow(f) ==
  LET res1 == [f.res EXCEPT !.first_time = f.time,
                            !.race_times = DictSet(@, 0, [start |-> f.time, end |-> NoneStr])]
      res2 == _add_log(res1, f.time, RaceBanner(0), "RACE_INFO",
                       f.current_area_id, f.section_id)
      f2 == [f EXCEPT !.race_count = 0, !.res = res2]
  IN  IF f.area_int = Unbound THEN Raise(f2, "UnboundLocalError")
      ELSE [f2 EXCEPT !.res = _add_section_change_log(res2, 0, f.time, f.area_int, f.section_id),
                      !.prev_area = f.current_area_id,
                      !.prev_section = f.section_id]

\* is_boarding_ic_start without the test of the previous section
is_boarding_ic_start_any(section_id, prev_section) ==
  section_id = SECTION_BOARDINGIC

\* lines 179-181
is_boarding_ic_start(section_id, prev_section) ==
  section_id = SECTION_BOARDINGIC /\ prev_section # SECTION_BOARDINGIC

\* BoardingIcStart writing the banner of the new race before the closing entry
BoardingIcStart_bannerfirst(f) ==
  LET res1 == IF f.race_count \in DOMAIN f.res.race_times
              THEN [f.res EXCEPT !.race_times[f.race_count].end = f.time]
              ELSE f.res
      f1 == [f EXCEPT !.res = res1]
  IN  IF f.area_int = Unbound THEN Raise(f1, "UnboundLocalError")
      ELSE LET n == f.race_count + 1
               res2 == _add_log(res1, f.time, RaceBanner(n), "RACE_INFO",
                                f.current_area_id, f.section_id)
               res3 == _add_section_change_log(res2, f.race_count, f.time,
                                               f.area_int, f.section_id)
               res4 == _add_section_change_log(res3, n, f.time, f.area_int, f.section_id)
               res5 == [res4 EXCEPT !.race_times =
                          DictSet(@, n, [start |-> f.time, end |-> NoneStr])]
           IN  [f EXCEPT !.res = res5, !.race_count = n]

\* BoardingIcStart closing the old race with the section it was in
BoardingIcStart_closeprev(f) ==
  LET res1 == IF f.race_count \in DOMAIN f.res.race_times
              THEN [f.res EXCEPT !.race_times[f.race_count].end = f.time]
              ELSE f.res
      f1 == [f EXCEPT !.res = res1]
  IN  IF f.area_int = Unbound THEN Raise(f1, "UnboundLocalError")
      ELSE LET res2 == _add_section_change_log(res1, f.race_count, f.time,
                                               f.area_int, f.prev_section)
               n == f.race_count + 1
               res3 == _add_log(res2, f.time, RaceBanner(n), "RACE_INFO",
                                f.current_area_id, f.section_id)
               res4 == _add_section_change_log(res3, n, f.time, f.area_int, f.section_id)
               res5 == [res4 EXCEPT !.race_times =
                          DictSet(@, n, [start |-> f.time, end |-> NoneStr])]
           IN  [f EXCEPT !.res = res5, !.race_count = n]

\* BoardingIcStart without lines 185-186: the open race is not closed
BoardingIcStart_noclose(f) ==
  IF f.area_int = Unbound THEN Raise(f, "UnboundLocalError")
  ELSE LET res2 == _add_section_change_log(f.res, f.race_count, f.time,
                                           f.area_int, f.section_id)
           n == f.race_count + 1
           res3 == _add_log(res2, f.time, RaceBanner(n), "RACE_INFO",
                            f.current_area_id, f.section_id)
           res4 == _add_section_change_log(res3, n, f.time, f.area_int, f.section_id)
           res5 == [res4 EXCEPT !.race_times =
                      DictSet(@, n, [start |-> f.time, end |-> NoneStr])]
       IN  [f EXCEPT !.res = res5, !.race_count = n]

\* BoardingIcStart with the new race entered under the index of the old one
BoardingIcStart_oldkey(f) ==
  LET res1 == IF f.race_count \in DOMAIN f.res.race_times
              THEN [f.res EXCEPT !.race_times[f.race_count].end = f.time]
              ELSE f.res
      f1 == [f EXCEPT !.res = res1]
  IN  IF f.area_int = Unbound THEN Raise(f1, "UnboundLocalError")
      ELSE LET res2 == _add_section_change_log(res1, f.race_count, f.time,
                                               f.area_int, f.section_id)
               n == f.race_count + 1
               res3 == _add_log(res2, f.time, RaceBanner(n), "RACE_INFO",
                                f.current_area_id, f.section_id)
               res4 == _add_section_change_log(res3, n, f.time, f.area_int, f.section_id)
               res5 == [res4 EXCEPT !.race_times =
                          DictSet(@, f.race_count, [start |-> f.time, end |-> NoneStr])]
           IN  [f EXCEPT !.res = res5, !.race_count = n]

\* lines 183-198: the open race is closed and the next one opened
BoardingIcStart(f) ==
  LET res1 == IF f.race_count \in DOMAIN f.res.race_times
              THEN [f.res EXCEPT !.race_times[f.race_count].end = f.time]
              ELSE f.res
      f1 == [f EXCEPT !.res = res1]
  IN  IF f.area_int = Unbound THEN Raise(f1, "UnboundLocalError")
      ELSE LET res2 == _add_section_change_log(res1, f.race_count, f.time,
                                               f.area_int, f.section_id)
               n == f.race_count + 1
               res3 == _add_log(res2, f.time, RaceBanner(n), "RACE_INFO",
                                f.current_area_id, f.section_id)
               res4 == _add_section_change_log(res3, n, f.time, f.area_int, f.section_id)
               res5 == [res4 EXCEPT !.race_times =
                          DictSet(@, n, [start |-> f.time, end |-> NoneStr])]
           IN  [f EXCEPT !.res = res5, !.race_count = n]

\* lines 200-202: a plain section change
SectionChange(f) ==
  IF f.area_int = Unbound THEN Raise(f, "UnboundLocalError")
  ELSE [f EXCEPT !.res = _add_section_change_log(f.res, f.race_count, f.time,
                                                 f.area_int, f.section_id)]

\* Classify treating a change of area like a change of section
Classify_areachange(f, i) ==
  IF i = 0 THEN FirstRow(f)
  ELSE LET g == IF is_boarding_ic_start(f.section_id, f.prev_section)
                THEN BoardingIcStart(f)
                ELSE IF f.section_id # f.prev_section \/ f.current_area_id # f.prev_area
                     THEN SectionChange(f)
                ELSE f
       IN  IF g.exc # "" THEN g
           ELSE [g EXCEPT !.prev_area = f.current_area_id,
                          !.prev_section = f.section_id]

\* Classify without lines 211-213: the previous state is never updated
Classify_noupdate(f, i) ==
  IF i = 0 THEN FirstRow(f)
  ELSE IF is_boarding_ic_start(f.section_id, f.prev_section)
       THEN BoardingIcStart(f)
       ELSE IF f.section_id # f.prev_section THEN SectionChange(f)
       ELSE f

\* lines 165-213: what the loop body does once the row is parsed
Classify(f, i) ==
  IF i = 0 THEN FirstRow(f)
  ELSE LET g == IF is_boarding_ic_start(f.section_id, f.prev_section)
                THEN BoardingIcStart(f)
                ELSE IF f.section_id # f.prev_section THEN SectionChange(f)
                ELSE f
       IN  IF g.exc # "" THEN g
           ELSE [g EXCEPT !.prev_area = f.current_area_id,
                          !.prev_section = f.section_id]

\* lines 149-213: one iteration of the loop, on the dict of row i
LoopBody(f, i, row, area_key, section_key) ==
  IF <<"time">> \notin DOMAIN row THEN Raise(f, "KeyError")
  ELSE IF row[<<"time">>] = NoneStr THEN Raise(f, "AttributeError")
  ELSE LET f1 == [f EXCEPT !.time = Strip(row[<<"time">>])]
       IN  IF section_key \notin DOMAIN row THEN Raise(f1, "KeyError")
           ELSE IF row[section_key] = NoneStr THEN Raise(f1, "AttributeError")
           ELSE LET f2 == [f1 EXCEPT !.section_id = SectionOf(Strip(row[section_key]))]
                    f3 == ParseArea(f2, row, area_key)
                IN  IF f3.exc # "" THEN f3 ELSE Classify(f3, i)

\* AfterLoop without lines 221-222: the last race is not closed
AfterLoop_noclose(f) ==
  LET res1 == [f.res EXCEPT !.last_time = f.time]
      f2 == [f EXCEPT !.res = res1]
  IN  IF f.area_int = Unbound \/ f.section_id = Unbound
      THEN Raise(f2, "UnboundLocalError")
      ELSE LET res3 == _add_section_change_log(res1, f.race_count, f.time,
                                               f.area_int, f.section_id)
           IN  [f2 EXCEPT !.res = [res3 EXCEPT !.total_race_count =
                                     IF f.race_count > 0 THEN f.race_count ELSE 0]]

\* AfterLoop closing the last race with first_time instead of the last row's time
AfterLoop_firsttime(f) ==
  LET res1 == [f.res EXCEPT !.last_time = f.time]
      res2 == IF f.race_count \in DOMAIN res1.race_times
              THEN [res1 EXCEPT !.race_times[f.race_count].end = f.res.first_time]
              ELSE res1
      f2 == [f EXCEPT !.res = res2]
  IN  IF f.area_int = Unbound \/ f.section_id = Unbound
      THEN Raise(f2, "UnboundLocalError")
      ELSE LET res3 == _add_section_change_log(res2, f.race_count, f.time,
                                               f.area_int, f.section_id)
           IN  [f2 EXCEPT !.res = [res3 EXCEPT !.total_race_count =
                                     IF f.race_count > 0 THEN f.race_count ELSE 0]]

\* lines 218-231: the stream is exhausted
AfterLoop(f) ==
  LET res1 == [f.res EXCEPT !.last_time = f.time]
      res2 == IF f.race_count \in DOMAIN res1.race_times
              THEN [res1 EXCEPT !.race_times[f.race_count].end = f.time]
              ELSE res1
      f2 == [f EXCEPT !.res = res2]
  IN  IF f.area_int = Unbound \/ f.section_id = Unbound
      THEN Raise(f2, "UnboundLocalError")
      ELSE LET res3 == _add_section_change_log(res2, f.race_count, f.time,
                                               f.area_int, f.section_id)
           IN  [f2 EXCEPT !.res = [res3 EXCEPT !.total_race_count =
                                     IF f.race_count > 0 THEN f.race_count ELSE 0]]

\* ------------------------------------------------------------------ state
VARIABLES
  heap,             \* the AnalysisResult objects created so far, by reference
  result,           \* self.result: a reference into heap
  _prev_area,       \* self._prev_area
  _prev_section,    \* self._prev_section
  _race_count,      \* self._race_count
  pc,               \* "idle", or "rows" while a pass is inside its loop
  fieldnames,       \* reader.fieldnames of the running pass
  area_key,         \* locals of analyze
  section_key,
  i,
  time,
  section_id,
  current_area_id,
  area_int,
  header,           \* the file of the running (or last) pass: its header line
  rows,             \*   and the lines read from it so far
  outcome,          \* how the last pass ended: "returned" or an exception
  calls,            \* the finished passes: input, outcome, returned reference
  second,           \* a second LogAnalyzer: its fields and the frame of its pass
  files,            \* the files save_logs_to_txt has written: path -> items
  exports,          \* the finished calls of save_logs_to_txt: argument, output
  ui,               \* the UI_Tool window: its fields and the state of its widgets
  grafana,          \* the Grafana server: its data sources and dashboards
  csvdir,           \* the files of the directory <cwd>/csv
  handled,          \* the last UI handler that ran: what it did, in order
  config            \* the ConfigManager of the window and the file config.ini

vars ==
  <<heap, result, _prev_area, _prev_section, _race_count, pc, fieldnames,
    area_key, section_key, i, time, section_id, current_area_id, area_int,
    header, rows, outcome, calls, second, files, exports,
    ui, grafana, csvdir, handled, config>>

\* the window, the server, the csv directory and the configuration, which no
\* LogAnalyzer touches
gui == <<ui, grafana, csvdir, handled, config>>

\* UI_State
INIT_STATE == 0
ANALYZE_STATE == 1
INVALID_RACE_NUM == -1

\* an optional object: None, or the object
None == <<>>
Some(x) == <<x>>

\* what the configuration file and the working directory give the window
DefaultTitle == "run"
CsvDirPath == "logs"

\* a combo box: its items, the index of the current one (the first one after
\* the box was filled, -1 in an empty box) and whether it is enabled
ComboBox(items, enabled) ==
  [items |-> items, index |-> IF items = <<>> THEN -1 ELSE 0, enabled |-> enabled]

\* UI_Tool.__init__ with a valid configuration, its closing click_clearbtn included
UI_Tool ==
  [analysis_result |-> None, current_state |-> INIT_STATE,
   start_time |-> <<>>, end_time |-> <<>>, selected_race |-> INVALID_RACE_NUM,
   last_title |-> DefaultTitle, last_gr_name |-> "", last_csv_path |-> CsvDirPath,
   title_input |-> DefaultTitle, gr_name_input |-> "", csv_path_input |-> CsvDirPath,
   analyze_button |-> TRUE, upload_button |-> FALSE, clear_button |-> TRUE,
   delete_all_button |-> TRUE, csv_browse_button |-> TRUE,
   race_selector |-> ComboBox(<<<<"select after analysis">>>>, FALSE),
   start_selector |-> ComboBox(<<<<"select after analysis">>>>, FALSE),
   end_selector |-> ComboBox(<<<<"select after analysis">>>>, FALSE)]

\* a Grafana server that holds nothing yet; created counts the objects it made
EmptyServer == [datasources |-> <<>>, dashboards |-> <<>>, created |-> 0]

\* no handler has run (a handler that ran leaves its name, its arguments,
\* what it did in order, the dashboards it posted, and the exception that
\* left it)
\* the options of config.ini the window reads, under the names ConfigParser
\* keeps them (optionxform lowers the case of an option name)
optionxform ==
  [LAST_CSV_PATH |-> "last_csv_path", DEFAULT_DASHBOARD_NAME |-> "default_dashboard_name"]

\* ConfigManager.__init__ and the first _save_initial_csv_path of the window:
\* the DEFAULT section in memory is the one of the file
ConfigManager ==
  LET ini == [last_csv_path |-> CsvDirPath, default_dashboard_name |-> DefaultTitle]
  IN  [memory |-> ini, disk |-> ini]

NoHandler ==
  [handler |-> "none", arg |-> <<>>, did |-> <<>>, posted |-> <<>>, exc |-> "",
   results |-> <<>>]

\* no second LogAnalyzer has been constructed (overlap records that its pass
\* read a row while the pass of the first instance was inside its loop)
NoSecond ==
  [result |-> 0, _prev_area |-> NoneInt, _prev_section |-> NoneInt, _race_count |-> 0,
   pc |-> "absent", fieldnames |-> <<>>, area_key |-> NoneStr, section_key |-> NoneStr,
   i |-> 0, time |-> NoneStr, section_id |-> Unbound, current_area_id |-> Unbound,
   area_int |-> Unbound, header |-> <<>>, rows |-> <<>>, outcome |-> "none", ret |-> 0,
   overlap |-> FALSE]

\* LogAnalyzer.__init__
Init ==
  /\ heap = <<EmptyResult>>
  /\ result = 1
  /\ _prev_area = NoneInt
  /\ _prev_section = NoneInt
  /\ _race_count = 0
  /\ pc = "idle"
  /\ fieldnames = <<>>
  /\ area_key = NoneStr
  /\ section_key = NoneStr
  /\ i = 0
  /\ time = NoneStr
  /\ section_id = Unbound
  /\ current_area_id = Unbound
  /\ area_int = Unbound
  /\ header = <<>>
  /\ rows = <<>>
  /\ outcome = "none"
  /\ calls = <<>>
  /\ second = NoSecond
  /\ files = EmptyDict
  /\ exports = <<>>
  /\ ui = UI_Tool
  /\ grafana = EmptyServer
  /\ csvdir = {}
  /\ handled = NoHandler
  /\ config = ConfigManager

\* one AnalysisResult object for every pass of every instance
NewResult_shared(h) == [heap |-> h, ref |-> 1]

\* analyze keeping the AnalysisResult object of the pass before
NewResult_reuse(h) == [heap |-> h, ref |-> Len(h)]

\* self.result = AnalysisResult(): a new object, and the reference to it
NewResult(h) == [heap |-> Append(h, EmptyResult), ref |-> Len(h) + 1]

\* analyze without the test of section_key
MissingSection_never(key) == FALSE

\* if not section_key
MissingSection(key) == key = NoneStr

\* The pass as the step operators see it
Frame ==
  [res |-> heap[result], prev_area |-> _prev_area, prev_section |-> _prev_section,
   race_count |-> _race_count, time |-> time, section_id |-> section_id,
   current_area_id |-> current_area_id, area_int |-> area_int, exc |-> ""]

\* The pass ends (return, or an exception leaves analyze): its frame is gone
EndPass(out, ret) ==
  /\ pc' = "idle"
  /\ outcome' = out
  /\ calls' = Append(calls, [header |-> header', rows |-> rows', outcome |-> out,
                             ret |-> ret, snap |-> heap'[result']])
  /\ fieldnames' = <<>>
  /\ area_key' = NoneStr
  /\ section_key' = NoneStr
  /\ i' = 0
  /\ time' = NoneStr
  /\ section_id' = Unbound
  /\ current_area_id' = Unbound
  /\ area_int' = Unbound

\* lines 132-148: analyze is called on a file whose header line is h
analyze(h) ==
  /\ pc = "idle"
  /\ UNCHANGED <<second, files, exports, gui>>
  /\ heap' = NewResult(heap).heap
  /\ result' = NewResult(heap).ref
  /\ _prev_area' = NoneInt
  /\ _prev_section' = NoneInt
  /\ _race_count' = 0
  /\ header' = h
  /\ rows' = <<>>
  /\ IF h = <<>> THEN EndPass("TypeError", 0)
     ELSE IF MissingSection(FindKey(StripAll(h), <<"section">>)) THEN EndPass("KeyError", 0)
     ELSE /\ pc' = "rows"
          /\ fieldnames' = StripAll(h)
          /\ area_key' = FindKey(StripAll(h), <<"area">>)
          /\ section_key' = FindKey(StripAll(h), <<"section">>)
          /\ i' = 0
          /\ time' = <<>>
          /\ UNCHANGED <<section_id, current_area_id, area_int, outcome, calls>>

\* lines 149-213: the loop reads the next line of the file
ReadRow(line) ==
  /\ pc = "rows"
  /\ UNCHANGED <<second, files, exports, gui>>
  /\ rows' = Append(rows, line)
  /\ LET g == LoopBody(Frame, i, RowDict(fieldnames, line), area_key, section_key)
     IN  /\ heap' = [heap EXCEPT ![result] = g.res]
         /\ _prev_area' = g.prev_area
         /\ _prev_section' = g.prev_section
         /\ _race_count' = g.race_count
         /\ UNCHANGED <<result, header>>
         /\ IF g.exc # "" THEN EndPass(g.exc, 0)
            ELSE /\ i' = i + 1
                 /\ time' = g.time
                 /\ section_id' = g.section_id
                 /\ current_area_id' = g.current_area_id
                 /\ area_int' = g.area_int
                 /\ UNCHANGED <<pc, fieldnames, area_key, section_key, outcome, calls>>

\* lines 218-231: the file has no further line
Exhausted ==
  /\ pc = "rows"
  /\ UNCHANGED <<second, files, exports, gui>>
  /\ LET g == AfterLoop(Frame)
     IN  /\ heap' = [heap EXCEPT ![result] = g.res]
         /\ UNCHANGED <<result, _prev_area, _prev_section, _race_count, header, rows>>
         /\ IF g.exc # "" THEN EndPass(g.exc, 0) ELSE EndPass("returned", result)

\* ------------------------------------------------- a second LogAnalyzer
\* the variables of the first instance and of its pass
first ==
  <<result, _prev_area, _prev_section, _race_count, pc, fieldnames, area_key,
    section_key, i, time, section_id, current_area_id, area_int, header, rows,
    outcome, calls>>

\* LogAnalyzer.__init__ of the second instance
LogAnalyzer2 ==
  /\ second.pc = "absent"
  /\ heap' = NewResult(heap).heap
  /\ second' = [second EXCEPT !.result = NewResult(heap).ref, !.pc = "idle"]
  /\ UNCHANGED <<first, files, exports, gui>>

Frame2 ==
  [res |-> heap[second.result], prev_area |-> second._prev_area,
   prev_section |-> second._prev_section, race_count |-> second._race_count,
   time |-> second.time, section_id |-> second.section_id,
   current_area_id |-> second.current_area_id, area_int |-> second.area_int,
   exc |-> ""]

\* the pass of the second instance ends: its frame is gone
EndPass2(s, out, ret) ==
  [s EXCEPT !.pc = "idle", !.outcome = out, !.ret = ret, !.fieldnames = <<>>,
            !.area_key = NoneStr, !.section_key = NoneStr, !.i = 0,
            !.time = NoneStr, !.section_id = Unbound,
            !.current_area_id = Unbound, !.area_int = Unbound]

\* lines 132-148, on the second instance
analyze2(h) ==
  /\ second.pc = "idle"
  /\ heap' = NewResult(heap).heap
  /\ LET s == [second EXCEPT !.result = NewResult(heap).ref, !._prev_area = NoneInt,
                             !._prev_section = NoneInt, !._race_count = 0,
                             !.header = h, !.rows = <<>>]
     IN  second' =
           IF h = <<>> THEN EndPass2(s, "TypeError", 0)
           ELSE IF MissingSection(FindKey(StripAll(h), <<"section">>))
                THEN EndPass2(s, "KeyError", 0)
           ELSE [s EXCEPT !.pc = "rows", !.fieldnames = StripAll(h),
                          !.area_key = FindKey(StripAll(h), <<"area">>),
                          !.section_key = FindKey(StripAll(h), <<"section">>),
                          !.i = 0, !.time = <<>>]
  /\ UNCHANGED <<first, files, exports, gui>>

\* lines 149-213, on the second instance
ReadRow2(line) ==
  /\ second.pc = "rows"
  /\ LET g == LoopBody(Frame2, second.i, RowDict(second.fieldnames, line),
                       second.area_key, second.section_key)
         s == [second EXCEPT !.rows = Append(second.rows, line),
                             !.overlap = @ \/ (pc = "rows" /\ i >= 1),
                             !._prev_area = g.prev_area,
                             !._prev_section = g.prev_section,
                             !._race_count = g.race_count]
     IN  /\ heap' = [heap EXCEPT ![second.result] = g.res]
         /\ second' =
               IF g.exc # "" THEN EndPass2(s, g.exc, 0)
               ELSE [s EXCEPT !.i = second.i + 1, !.time = g.time,
                              !.section_id = g.section_id,
                              !.current_area_id = g.current_area_id,
                              !.area_int = g.area_int]
  /\ UNCHANGED <<first, files, exports, gui>>

\* lines 218-231, on the second instance
Exhausted2 ==
  /\ second.pc = "rows"
  /\ LET g == AfterLoop(Frame2)
     IN  /\ heap' = [heap EXCEPT ![second.result] = g.res]
         /\ second' = IF g.exc # "" THEN EndPass2(second, g.exc, 0)
                      ELSE EndPass2(second, "returned", second.result)
  /\ UNCHANGED <<first, files, exports, gui>>

\* ---------------------------------------------------- save_logs_to_txt
\* not x, for x a str or None
Falsy(x) == x = NoneStr \/ x = <<>>

\* str.replace(':', '_'), the colon being a token of its own
ReplaceColon(s) == [j \in DOMAIN s |-> IF s[j] = ":" THEN "_" ELSE s[j]]

\* os.path.join(output_dir, file_name)
FilePath(res, output_dir) ==
  <<output_dir, "/">> \o ReplaceColon(res.first_time) \o <<"~">>
    \o ReplaceColon(res.last_time) \o <<".txt">>

\* the two header items; the labels stand for the Korean texts of lines 256
\* and 257 (whole time span, total number of races)
TimeSpanLabel == "TIME SPAN: "
RaceCountLabel == "RACE COUNT: "

HeaderItems(res) ==
  << <<TimeSpanLabel>> \o res.first_time \o <<" - ">> \o res.last_time \o <<"\n">>,
     <<RaceCountLabel, ToString(res.total_race_count), "\n\n">> >>

\* lines 261-266: the item of one LogEntry
EntryItem(entry) ==
  IF entry.log_type = "RACE_INFO" THEN <<"\n", entry.context, "\n">>
  ELSE <<"[">> \o entry.time \o <<"]     ", entry.context, "\n">>

OutputLines(res) == HeaderItems(res) \o [k \in DOMAIN res.logs |-> EntryItem(res.logs[k])]

\* the test of line 243 looking at first_time only
EmptyResultTest_first(res) == Falsy(res.first_time)

\* line 243
EmptyResultTest(res) == Falsy(res.first_time) \/ Falsy(res.last_time)

\* lines 239-270: save_logs_to_txt(result, output_dir), result a reference
save_logs_to_txt(ref, output_dir) ==
  /\ pc = "idle"
  /\ second.pc # "rows"
  /\ LET res == heap[ref]
     IN  IF EmptyResultTest(res)
         THEN /\ exports' = Append(exports, [result |-> ref, printed |-> <<"empty">>])
              /\ UNCHANGED files
         ELSE /\ files' = DictSet(files, FilePath(res, output_dir), OutputLines(res))
              /\ exports' = Append(exports,
                     [result |-> ref, printed |-> <<"saved">> \o FilePath(res, output_dir)])
  /\ UNCHANGED <<heap, first, second, gui>>

\* ----------------------------------------------------------------- inputs
T1 == <<"t1">>
T2 == <<" ", "t2">>
Time == <<"time">>
Section == <<" ", "SECTION", " ">>
Area == <<"Area">>

FullHeader == <<Time, Section, Area>>
NoAreaHeader == <<Time, <<"section">>>>
NoSectionHeader == <<Time, Area>>
NoTimeHeader == <<<<"Time">>, <<"section">>, <<"area">>>>
EmptyFile == <<>>
PaddedHeader == <<<<" ", "time", " ">>, <<"section">>, <<"AREA", " ">>>>

Headers == {FullHeader, NoAreaHeader, NoSectionHeader, NoTimeHeader, EmptyFile}

TimeCells == {T1, T2}
SectionCells == {<<"ENTERING">>, <<" ", "BOARDING_IC">>, <<"garbage">>}
AreaCells == {<<"3", " ">>, <<>>}
AllAreaCells == {<<"3", " ">>, <<>>, <<"50">>, <<"abc">>}

\* The cells a column of the header may hold
CellsFor(name, areas) ==
  IF Lower(Strip(name)) = <<"time">> THEN TimeCells
  ELSE IF Lower(Strip(name)) = <<"section">> THEN SectionCells
  ELSE areas

\* Lines that lack their last cells
ShortLines == {<<T2>>, <<T1, <<"ENTERING">>>>}

Lines(h, areas) ==
  {l \in ShortLines : Len(l) < Len(h)} \cup
  (IF Len(h) = 3
   THEN {<<a, b, c>> : a \in CellsFor(h[1], areas), b \in CellsFor(h[2], areas),
                       c \in CellsFor(h[3], areas)}
   ELSE {<<a, b>> : a \in CellsFor(h[1], areas), b \in CellsFor(h[2], areas)})

\* -------------------------------------------------- Spec: one pass, any file
Open == \E h \in Headers : calls = <<>> /\ analyze(h)

Row ==
  /\ pc = "rows"
  /\ Len(rows) < MaxRows
  /\ \E line \in Lines(header, AreaCells) : ReadRow(line)

Next == Open \/ Row \/ Exhausted

Spec == Init /\ [][Next]_vars

\* --------------------------------- SpecArea: one pass, every kind of area cell
RowArea ==
  /\ pc = "rows"
  /\ Len(rows) < MaxRowsArea
  /\ \E line \in Lines(header, AllAreaCells) : ReadRow(line)

NextArea == Open \/ RowArea \/ Exhausted

SpecArea == Init /\ [][NextArea]_vars

\* ------------------------- SpecRerun: several passes of the one instance
\* over files of a fixed set (a returning file with two boarding-approach
\* transitions, one that starts in BOARDING_IC, a one-line file, a file
\* whose first area cell is empty, a file with a header only, and a file
\* without section column)
E3(t) == <<t, <<"ENTERING">>, <<"3", " ">>>>
B3(t) == <<t, <<" ", "BOARDING_IC">>, <<"3", " ">>>>

RerunFiles ==
  { [header |-> FullHeader, lines |-> <<E3(T1), B3(T1), E3(T2), B3(T2)>>],
    [header |-> FullHeader, lines |-> <<B3(T1), <<T2, <<"garbage">>, <<>>>>>>],
    [header |-> FullHeader, lines |-> <<E3(T1)>>],
    [header |-> FullHeader, lines |-> <<<<T1, <<"ENTERING">>, <<>>>>>>],
    [header |-> FullHeader, lines |-> <<>>],
    [header |-> NoSectionHeader, lines |-> <<>>],
    [header |-> PaddedHeader, lines |-> <<E3(T1)>>],
    [header |-> NoTimeHeader, lines |-> <<E3(T1)>>] }

OpenRerun == \E F \in RerunFiles : Len(calls) < MaxCalls /\ analyze(F.header)

RowRerun ==
  /\ pc = "rows"
  /\ \E F \in RerunFiles :
       /\ F.header = header
       /\ Len(rows) < Len(F.lines)
       /\ SubSeq(F.lines, 1, Len(rows)) = rows
       /\ ReadRow(F.lines[Len(rows) + 1])

ExhaustedRerun ==
  /\ pc = "rows"
  /\ \E F \in RerunFiles : F.header = header /\ F.lines = rows
  /\ Exhausted

NextRerun == OpenRerun \/ RowRerun \/ ExhaustedRerun

SpecRerun == Init /\ [][NextRerun]_vars

\* ------------------------------------------------- the input, as a file
\* What a file says, read off its header and lines: c is a record with the
\* fields header and rows (a finished pass of calls, or the running pass).

HasColumn(h, name) == \E j \in DOMAIN h : Lower(Strip(h[j])) = name

ColumnOf(h, name) ==
  CHOOSE j \in DOMAIN h :
    /\ Lower(Strip(h[j])) = name
    /\ \A y \in DOMAIN h : Lower(Strip(h[y])) = name => j <= y

\* row["time"] finds its key: a column named time exactly, once stripped
HasTime(h) == \E j \in DOMAIN h : Strip(h[j]) = <<"time">>

\* every line has a cell for every column
Complete(c) == \A k \in DOMAIN c.rows : Len(c.rows[k]) = Len(c.header)

TimeOfRow(c, k) == Strip(c.rows[k][ColumnOf(c.header, <<"time">>)])

SectionOfRow(c, k) == SectionOf(Strip(c.rows[k][ColumnOf(c.header, <<"section">>)]))

\* the area cell of row k is empty, non-numeric or no member of GPS_AREA
InvalidArea(c, k) ==
  LET cell == c.rows[k][ColumnOf(c.header, <<"area">>)]
  IN  Strip(cell) = <<>> \/ ~IsInt(cell) \/ ParseInt(cell) \notin GPS_AREA

AreaOfRow(c, k) ==
  IF ~HasColumn(c.header, <<"area">>) \/ InvalidArea(c, k) THEN GPS_UNKNOWN
  ELSE ParseInt(c.rows[k][ColumnOf(c.header, <<"area">>)])

\* the rows i >= 1 (here: k >= 2) that enter BOARDING_IC from another section
Transitions(c) ==
  LET col == ColumnOf(c.header, <<"section">>)
      sec == [k \in DOMAIN c.rows |-> SectionOf(Strip(c.rows[k][col]))]
  IN  {k \in 2 .. Len(c.rows) :
         sec[k] = SECTION_BOARDINGIC /\ sec[k - 1] # SECTION_BOARDINGIC}

\* the n-th smallest member of a set of row numbers
Nth(tr, n) == CHOOSE k \in tr : Cardinality({j \in tr : j < k}) = n - 1

Returned == {calls[n] : n \in {m \in DOMAIN calls : calls[m].outcome = "returned"}}

\* ------------------------------------------------------------------ claims

\* C1: when analyze returns, total_race_count is the number of rows i >= 1
\* whose section is BOARDING_IC while the section of row i-1 is not, and race 0
\* is a key of race_times and of race_section_changes.
C1_TotalRaceCount ==
  \A c \in Returned :
    /\ c.snap.total_race_count = Cardinality(Transitions(c))
    /\ 0 \in DOMAIN c.snap.race_times
    /\ 0 \in DOMAIN c.snap.race_section_changes

\* a returned pass whose first row is in BOARDING_IC and is not counted, with
\* one later transition that is
C1_Witness ==
  \E c \in Returned :
    /\ SectionOfRow(c, 1) = SECTION_BOARDINGIC
    /\ Cardinality(Transitions(c)) = 1
    /\ c.snap.total_race_count = 1

\* C2: when analyze returns, first_time and last_time are the timestamps of
\* the first and the last row, race 0 starts at first_time and the last race
\* (index total_race_count) ends at last_time.
C2_FirstLastTime ==
  \A c \in Returned :
    /\ c.snap.first_time = TimeOfRow(c, 1)
    /\ c.snap.last_time = TimeOfRow(c, Len(c.rows))
    /\ 0 \in DOMAIN c.snap.race_times
    /\ c.snap.race_times[0].start = c.snap.first_time
    /\ c.snap.total_race_count \in DOMAIN c.snap.race_times
    /\ c.snap.race_times[c.snap.total_race_count].end = c.snap.last_time

\* a returned pass with a race after race 0 whose first and last rows differ
\* in time
C2_Witness ==
  \E c \in Returned :
    /\ c.snap.total_race_count >= 1
    /\ c.snap.first_time = <<"t1">>
    /\ c.snap.last_time = <<"t2">>

\* C3: in every state of a pass and in every result, no race's change list
\* holds two adjacent entries with the same (Section, timestamp) pair.
NoAdjacentPair(res) ==
  \A r \in DOMAIN res.race_section_changes :
    \A k \in 1 .. (Len(res.race_section_changes[r]) - 1) :
      res.race_section_changes[r][k] # res.race_section_changes[r][k + 1]

C3_NoAdjacentDuplicate == \A o \in DOMAIN heap : NoAdjacentPair(heap[o])

\* a returned pass in which two rows repeat a timestamp with different
\* sections, and whose last row emitted a change that the emission after the
\* loop repeated (the flat log holds it twice)
C3_Witness ==
  \E c \in Returned :
    /\ \E k \in 2 .. Len(c.rows) :
         /\ TimeOfRow(c, k) = TimeOfRow(c, k - 1)
         /\ SectionOfRow(c, k) # SectionOfRow(c, k - 1)
    /\ \E k \in 2 .. Len(c.snap.logs) : c.snap.logs[k] = c.snap.logs[k - 1]

\* C4: after each processed row race_times[r].end is None exactly for the
\* current race counter, the highest index; when analyze returns no end is
\* None and the last race ends at the last row's timestamp.
C4_OpenRaceIsLast ==
  /\ (pc = "rows" /\ i >= 1) =>
       /\ DOMAIN heap[result].race_times = 0 .. _race_count
       /\ \A r \in DOMAIN heap[result].race_times :
            (heap[result].race_times[r].end = NoneStr) <=> (r = _race_count)
  /\ \A c \in Returned :
       /\ \A r \in DOMAIN c.snap.race_times : c.snap.race_times[r].end # NoneStr
       /\ \E r \in DOMAIN c.snap.race_times :
            /\ \A q \in DOMAIN c.snap.race_times : q <= r
            /\ c.snap.race_times[r].end = TimeOfRow(c, Len(c.rows))

\* the pass is inside its loop with two closed races behind the open one
C4_Witness ==
  /\ pc = "rows"
  /\ _race_count = 2
  /\ heap[result].race_times[1].end # NoneStr
  /\ heap[result].race_times[2].end = NoneStr

\* C5: the keys of race_times are 0..total_race_count (0.._race_count during
\* the pass), and for r < total_race_count race r ends and race r+1 starts at
\* the timestamp of the row of the (r+1)-th boarding-approach transition.
C5_RaceIndices ==
  /\ (pc = "rows" /\ i >= 1) => DOMAIN heap[result].race_times = 0 .. _race_count
  /\ \A c \in Returned :
       LET tr == Transitions(c)
           col == ColumnOf(c.header, <<"time">>)
       IN  /\ DOMAIN c.snap.race_times = 0 .. c.snap.total_race_count
           /\ c.snap.total_race_count = Cardinality(tr)
           /\ \A r \in 0 .. (c.snap.total_race_count - 1) :
                /\ c.snap.race_times[r].end = Strip(c.rows[Nth(tr, r + 1)][col])
                /\ c.snap.race_times[r + 1].start = Strip(c.rows[Nth(tr, r + 1)][col])

\* a returned pass with two transitions at different timestamps
C5_Witness ==
  \E c \in Returned :
    /\ c.snap.total_race_count = 2
    /\ c.snap.race_times[0].end # c.snap.race_times[1].end

\* C6: two passes of the one instance over the same file end the same way
\* with equal result contents, whatever passes ran before them, and a result
\* once returned keeps the contents it was returned with.
SameFile(a, b) == a.header = b.header /\ a.rows = b.rows

C6_RerunIdentical ==
  /\ \A a \in DOMAIN calls : \A b \in DOMAIN calls :
       SameFile(calls[a], calls[b]) =>
         /\ calls[a].outcome = calls[b].outcome
         /\ calls[a].snap = calls[b].snap
  /\ \A a \in DOMAIN calls :
       calls[a].ret # 0 => heap[calls[a].ret] = calls[a].snap
  /\ \A a \in DOMAIN calls : \A b \in DOMAIN calls :
       (a # b /\ calls[a].ret # 0) => calls[a].ret # calls[b].ret

\* a file with two races is analysed, then a file on which analyze raises,
\* then the first file again
C6_Witness ==
  /\ Len(calls) = 3
  /\ SameFile(calls[1], calls[3])
  /\ calls[1].outcome = "returned"
  /\ calls[1].snap.total_race_count = 2
  /\ calls[2].outcome = "UnboundLocalError"
  /\ calls[2].snap.logs # <<>>

\* C7: with no area column in the header, analyze returns for every non-empty
\* sequence of complete rows, and every LogEntry has the area GPS_UNKNOWN.
C7_NoAreaColumn ==
  \A n \in DOMAIN calls :
    LET c == calls[n]
    IN  ( /\ HasTime(c.header)
          /\ HasColumn(c.header, <<"section">>)
          /\ ~HasColumn(c.header, <<"area">>)
          /\ c.rows # <<>>
          /\ Complete(c) )
        => /\ c.outcome = "returned"
           /\ \A k \in DOMAIN c.snap.logs : c.snap.logs[k].area_id = GPS_UNKNOWN

\* C8: a complete row whose area cell is empty, non-numeric or outside
\* GPS_AREA never ends the pass by an exception, at any position, and the
\* entries of a pass all of whose rows are such have the area GPS_UNKNOWN.
C8_InvalidAreaAbsorbed ==
  \A n \in DOMAIN calls :
    LET c == calls[n]
    IN  ( /\ HasTime(c.header)
          /\ HasColumn(c.header, <<"section">>)
          /\ HasColumn(c.header, <<"area">>)
          /\ c.rows # <<>>
          /\ Complete(c) )
        => /\ InvalidArea(c, Len(c.rows)) => c.outcome = "returned"
           /\ (\A k \in DOMAIN c.rows : InvalidArea(c, k)) =>
                \A k \in DOMAIN c.snap.logs : c.snap.logs[k].area_id = GPS_UNKNOWN

C10_EntryCarriesRowState ==
  [][pc = "rows" =>
       LET c == [header |-> header, rows |-> rows']
       IN  \A k \in (Len(heap[result].logs) + 1) .. Len(heap'[result].logs) :
             /\ heap'[result].logs[k].area_id = AreaOfRow(c, Len(c.rows))
             /\ heap'[result].logs[k].section_id = SectionOfRow(c, Len(c.rows))]_vars

\* the section cell of row k is absent (a short line) or is no label of
\* STR_TO_ENUM once stripped
UnknownLabel(c, k) ==
  LET col == ColumnOf(c.header, <<"section">>)
  IN  \/ Len(c.rows[k]) < col
      \/ SectionOf(Strip(c.rows[k][col])) = SECTION_UNKNOWN

\* C11: a row after the first whose section label is no exact match of a known
\* label (an arbitrary string, an empty value or a missing field) and whose
\* time cell is there is classified Section-unknown without raising: no pass
\* ends by an exception on such a row.
C11_UnknownLabelNeverRaises ==
  \A n \in DOMAIN calls :
    LET c == calls[n]
        k == Len(c.rows)
    IN  ( /\ HasTime(c.header)
          /\ HasColumn(c.header, <<"section">>)
          /\ k >= 2
          /\ Len(c.rows[k]) >= ColumnOf(c.header, <<"time">>)
          /\ UnknownLabel(c, k) )
        => c.outcome = "returned"

\* ------------------------------------------ passes over timestamped rows
MaxRowsTimes == 4

T3 == <<"t3">>
T4 == <<"t4", " ">>

StampCells == {T1, T2, T3, T4}

OpenTimes == calls = <<>> /\ analyze(FullHeader)

RowTimes ==
  /\ pc = "rows"
  /\ Len(rows) < MaxRowsTimes
  /\ \E t \in StampCells : ReadRow(E3(t)) \/ ReadRow(B3(t))

NextTimes == OpenTimes \/ RowTimes \/ Exhausted

SpecTimes == Init /\ [][NextTimes]_vars

\* the running pass as a file: its header and the lines read so far
Running == [header |-> header, rows |-> rows]

\* rows ENTERING@t1, BOARDING_IC@t2, BOARDING_IC@t3, ENTERING@t4
Scenario12 == <<E3(T1), B3(T2), B3(T3), E3(T4)>>

Pair(s, t) == <<s, t>>

\* C12: when a row at timestamp t enters BOARDING_IC from another section, the
\* change list of the race it closes ends with (BOARDING_IC, t) and the list of
\* the race it opens starts with (BOARDING_IC, t); a row that stays in
\* BOARDING_IC adds no change entry to any race. The pass over the rows
\* ENTERING@t1, BOARDING_IC@t2, BOARDING_IC@t3, ENTERING@t4 returns
\* race_times {0: (t1, t2), 1: (t2, t4)}, total_race_count 1 and
\* race_section_changes[0] = [(ENTERING, t1), (BOARDING_IC, t2)].
C12_TransitionPairs ==
  /\ [][(pc = "rows" /\ pc' = "rows" /\ Len(rows') = Len(rows) + 1 /\ rows # <<>>) =>
         LET c == [header |-> header, rows |-> rows']
             k == Len(rows')
             t == TimeOfRow(c, k)
             old == heap[result].race_section_changes
             new == heap'[result].race_section_changes
         IN  /\ k \in Transitions(c) =>
                  /\ new[_race_count][Len(new[_race_count])] = Pair(SECTION_BOARDINGIC, t)
                  /\ Len(new[_race_count]) = Len(old[_race_count]) + 1
                  /\ _race_count + 1 \in DOMAIN new
                  /\ new[_race_count + 1][1] = Pair(SECTION_BOARDINGIC, t)
             /\ ( /\ SectionOfRow(c, k) = SECTION_BOARDINGIC
                  /\ SectionOfRow(c, k - 1) = SECTION_BOARDINGIC ) => new = old]_vars
  /\ [](\A n \in DOMAIN calls :
          calls[n].rows = Scenario12 =>
            /\ calls[n].outcome = "returned"
            /\ calls[n].snap.race_times =
                 (0 :> [start |-> T1, end |-> <<"t2">>]
                  @@ 1 :> [start |-> <<"t2">>, end |-> <<"t4">>])
            /\ calls[n].snap.total_race_count = 1
            /\ calls[n].snap.race_section_changes[0] =
                 <<Pair(STR_TO_ENUM.ENTERING, T1), Pair(SECTION_BOARDINGIC, <<"t2">>)>>)

\* the pass over the four rows of the scenario has returned
C12_Witness ==
  \E n \in DOMAIN calls :
    /\ calls[n].rows = Scenario12
    /\ calls[n].outcome = "returned"
    /\ calls[n].snap.total_race_count = 1
    /\ Len(calls[n].snap.race_section_changes[1]) = 2

\* the lexicographic order of the timestamps t1 .. t4, as strings
StampRank == ("t1" :> 1 @@ "t2" :> 2 @@ "t3" :> 3 @@ "t4" :> 4)

StampLeq(a, b) == StampRank[a[1]] <= StampRank[b[1]]

NonDecreasing(c) ==
  \A k \in 1 .. (Len(c.rows) - 1) : StampLeq(TimeOfRow(c, k), TimeOfRow(c, k + 1))

\* C13: while and after a pass over rows whose timestamps are non-decreasing
\* in lexicographic order, every race of the engine's result whose end is set
\* has end >= start.
C13_EndNotBeforeStart ==
  NonDecreasing(Running) =>
    \A r \in DOMAIN heap[result].race_times :
      LET rt == heap[result].race_times[r]
      IN  rt.end # NoneStr => StampLeq(rt.start, rt.end)

\* a returned pass over non-decreasing rows with a second race that starts
\* after t1 and ends later than it starts
C13_Witness ==
  /\ pc = "idle"
  /\ outcome = "returned"
  /\ NonDecreasing(Running)
  /\ 1 \in DOMAIN heap[result].race_times
  /\ LET rt == heap[result].race_times[1]
     IN  /\ rt.start # T1
         /\ rt.end # NoneStr
         /\ rt.end # rt.start

\* two header lines that name the same columns up to case and whitespace
SameColumns(h1, h2) ==
  /\ Len(h1) = Len(h2)
  /\ \A j \in DOMAIN h1 : Lower(Strip(h1[j])) = Lower(Strip(h2[j]))

\* C14: the time, section and area columns are found whatever the case and
\* the surrounding whitespace of their header names: two passes over files
\* whose header lines differ only in case and whitespace and whose rows are
\* the same end the same way with equal results.
C14_HeaderCaseAndSpace ==
  \A a \in DOMAIN calls : \A b \in DOMAIN calls :
    (SameColumns(calls[a].header, calls[b].header) /\ calls[a].rows = calls[b].rows)
      => /\ calls[a].outcome = calls[b].outcome
         /\ calls[a].snap = calls[b].snap

\* --------------------------------------------- two instances, interleaved
\* analyze run from its call to its end on a file with header line h and the
\* given lines, by an instance no other code touches
RECURSIVE RunRows(_, _, _, _, _)
RunRows(f, n, lines, names, keys) ==
  IF n > Len(lines) \/ f.exc # "" THEN f
  ELSE RunRows(LoopBody(f, n - 1, RowDict(names, lines[n]), keys.area, keys.section),
               n + 1, lines, names, keys)

Alone(h, lines) ==
  LET f0 == [res |-> EmptyResult, prev_area |-> NoneInt, prev_section |-> NoneInt,
             race_count |-> 0, time |-> <<>>, section_id |-> Unbound,
             current_area_id |-> Unbound, area_int |-> Unbound, exc |-> ""]
  IN  IF h = <<>> THEN [outcome |-> "TypeError", res |-> EmptyResult]
      ELSE IF MissingSection(FindKey(StripAll(h), <<"section">>))
           THEN [outcome |-> "KeyError", res |-> EmptyResult]
      ELSE LET keys == [area |-> FindKey(StripAll(h), <<"area">>),
                        section |-> FindKey(StripAll(h), <<"section">>)]
               g == RunRows(f0, 1, lines, StripAll(h), keys)
               a == IF g.exc # "" THEN g ELSE AfterLoop(g)
           IN  [outcome |-> IF a.exc # "" THEN a.exc ELSE "returned", res |-> a.res]

OpenFirst == \E F \in RerunFiles : calls = <<>> /\ analyze(F.header)

OpenSecond ==
  \E F \in RerunFiles : second.outcome = "none" /\ analyze2(F.header)

RowSecond ==
  /\ second.pc = "rows"
  /\ \E F \in RerunFiles :
       /\ F.header = second.header
       /\ Len(second.rows) < Len(F.lines)
       /\ SubSeq(F.lines, 1, Len(second.rows)) = second.rows
       /\ ReadRow2(F.lines[Len(second.rows) + 1])

ExhaustedSecond ==
  /\ second.pc = "rows"
  /\ \E F \in RerunFiles : F.header = second.header /\ F.lines = second.rows
  /\ Exhausted2

NextTwo ==
  \/ OpenFirst \/ RowRerun \/ ExhaustedRerun
  \/ LogAnalyzer2 \/ OpenSecond \/ RowSecond \/ ExhaustedSecond

SpecTwo == Init /\ [][NextTwo]_vars

\* C15: when passes of two distinct LogAnalyzer instances are interleaved at
\* row boundaries in any way, each pass ends as it ends when run alone on its
\* file, and leaves in its instance the result that the pass alone produces
\* (the returned object, when it returns).
C15_TwoInstances ==
  /\ (pc = "idle" /\ calls # <<>>) =>
       LET a == Alone(header, rows)
       IN  /\ outcome = a.outcome
           /\ heap[result] = a.res
           /\ calls[1].ret = IF outcome = "returned" THEN result ELSE 0
  /\ (second.pc = "idle" /\ second.outcome # "none") =>
       LET a == Alone(second.header, second.rows)
       IN  /\ second.outcome = a.outcome
           /\ heap[second.result] = a.res
           /\ second.ret = IF second.outcome = "returned" THEN second.result ELSE 0

\* both passes have returned, on different files, the first with two races
\* closed, and the second read a row while the first was inside its loop
C15_Witness ==
  /\ pc = "idle" /\ outcome = "returned"
  /\ second.pc = "idle" /\ second.outcome = "returned"
  /\ second.overlap
  /\ rows # second.rows
  /\ heap[result].total_race_count = 2
  /\ Len(heap[second.result].logs) >= 3

\* ------------------------------------------------ analysing, then saving
MaxRowsExport == 3
MaxSaves == 2

\* a timestamp with a colon, and an empty timestamp cell
TColon == <<"12", ":", "30">>
TEmpty == <<>>

ExportStamps == {T1, TColon, TEmpty}

OpenExport == calls = <<>> /\ analyze(FullHeader)

RowExport ==
  /\ pc = "rows"
  /\ Len(rows) < MaxRowsExport
  /\ \/ \E t \in ExportStamps : ReadRow(E3(t)) \/ ReadRow(B3(t))
     \/ ReadRow(<<T1>>)

Save ==
  /\ Len(exports) < MaxSaves
  /\ \E ref \in DOMAIN heap : save_logs_to_txt(ref, ".")

NextExport == OpenExport \/ RowExport \/ Exhausted \/ Save

SpecExport == Init /\ [][NextExport]_vars

\* what a finished call of save_logs_to_txt on res has to leave behind, given
\* that unset(res) tells whether no file is to be written: no file and a
\* notice, or exactly one file written, holding two header items and then one
\* item per LogEntry of res.logs in order, a banner of its own for RACE_INFO
\* and a line with the bracketed timestamp for any other entry
SavedAsClaimed(res, unset) ==
  IF unset
  THEN /\ files' = files
       /\ exports'[Len(exports')].printed = <<"empty">>
  ELSE \E path \in DOMAIN files' :
         LET out == files'[path]
         IN  /\ \A q \in DOMAIN files : q # path => files'[q] = files[q]
             /\ DOMAIN files' = DOMAIN files \cup {path}
             /\ Len(out) = 2 + Len(res.logs)
             /\ out[1] = <<TimeSpanLabel>> \o res.first_time \o <<" - ">>
                           \o res.last_time \o <<"\n">>
             /\ out[2] = <<RaceCountLabel, ToString(res.total_race_count), "\n\n">>
             /\ \A k \in DOMAIN res.logs :
                  out[2 + k] =
                    IF res.logs[k].log_type = "RACE_INFO"
                    THEN <<"\n", res.logs[k].context, "\n">>
                    ELSE <<"[">> \o res.logs[k].time \o <<"]     ">>
                           \o <<res.logs[k].context, "\n">>

SaveStep == Len(exports') = Len(exports) + 1

\* C16 as stated: save_logs_to_txt writes no file and returns after a notice
\* when first_time or last_time of the result is unset (None); otherwise it
\* writes exactly one file, two header items and one item per LogEntry in
\* order; it never modifies the result.
C16_SaveWhenSet ==
  [][SaveStep =>
       LET res == heap[exports'[Len(exports')].result]
       IN  /\ SavedAsClaimed(res, res.first_time = NoneStr \/ res.last_time = NoneStr)
           /\ heap' = heap]_vars

\* C16, amended: save_logs_to_txt writes no file and returns after a notice
\* when first_time or last_time of the result is unset or the empty string;
\* otherwise it writes exactly one file, two header items and one item per
\* LogEntry in order; it never modifies the result.
C16_SaveWhenNonEmpty ==
  [][SaveStep =>
       LET res == heap[exports'[Len(exports')].result]
       IN  /\ SavedAsClaimed(res, res.first_time \in {NoneStr, <<>>}
                                    \/ res.last_time \in {NoneStr, <<>>})
           /\ heap' = heap]_vars

\* one call has written the file of a returned result with two races, and
\* one call on the result of the constructor has written none
C16_Witness ==
  /\ \E path \in DOMAIN files : \E ref \in DOMAIN heap :
       /\ heap[ref].total_race_count = 1
       /\ files[path] = OutputLines(heap[ref])
       /\ path = <<".", "/", "t1", "~", "12", "_", "30", ".txt">>
  /\ \E n \in DOMAIN exports :
       /\ exports[n].printed = <<"empty">>
       /\ heap[exports[n].result] = EmptyResult

\* a call on the result a failed pass left behind, first_time set and
\* last_time unset, has written no file
C16_PartialResult ==
  \E n \in DOMAIN exports :
    /\ exports[n].printed = <<"empty">>
    /\ heap[exports[n].result].first_time = T1
    /\ heap[exports[n].result].last_time = NoneStr
    /\ files = EmptyDict

\* ------------------------------------------ the row of a transition
\* the step reads a complete row that enters BOARDING_IC from another section
TransitionStep ==
  /\ pc = "rows"
  /\ Len(rows') = Len(rows) + 1
  /\ Complete([header |-> header, rows |-> rows'])
  /\ Len(rows') \in Transitions([header |-> header, rows |-> rows'])

\* the log entries the step appends
Appended ==
  SubSeq(heap'[result].logs, Len(heap[result].logs) + 1, Len(heap'[result].logs))

\* C17: the row of a boarding-approach transition appends exactly three log
\* entries, in this order: a SECTION_CHANGE recorded in the change list of the
\* old race index, the RACE_INFO banner naming the new index, a SECTION_CHANGE
\* recorded as first entry of the new index; the old race's end and the new
\* race's start are the row's timestamp, and _race_count grows by one.
C17_ThreeEntries ==
  [][TransitionStep =>
       LET t == TimeOfRow([header |-> header, rows |-> rows'], Len(rows'))
           old == heap[result]
           new == heap'[result]
           n == _race_count
           e == Appended
       IN  /\ Len(e) = 3
           /\ SubSeq(new.logs, 1, Len(old.logs)) = old.logs
           /\ e[1].log_type = "SECTION_CHANGE" /\ e[1].time = t
           /\ new.race_section_changes[n] =
                Append(old.race_section_changes[n], Pair(e[1].section_id, t))
           /\ e[2].log_type = "RACE_INFO" /\ e[2].time = t
           /\ e[2].context = RaceBanner(n + 1)
           /\ e[3].log_type = "SECTION_CHANGE" /\ e[3].time = t
           /\ new.race_section_changes[n + 1] = <<Pair(e[3].section_id, t)>>
           /\ new.race_times[n].end = t
           /\ new.race_times[n + 1] = [start |-> t, end |-> NoneStr]
           /\ _race_count' = n + 1]_vars

\* the pass has just read the row of its second transition: the last three
\* log entries are those of the transition, at a timestamp other than race 0's
C17_Witness ==
  /\ pc = "rows"
  /\ _race_count = 2
  /\ Len(rows) \in Transitions(Running)
  /\ LET logs == heap[result].logs
         m == Len(logs)
     IN  /\ logs[m - 2].log_type = "SECTION_CHANGE"
         /\ logs[m - 1].context = RaceBanner(2)
         /\ logs[m].log_type = "SECTION_CHANGE"
         /\ logs[m].time # heap[result].first_time

\* the row before the row the step reads
SectionLeft == SectionOfRow([header |-> header, rows |-> rows'], Len(rows))

\* the last pair of the change list of race n in the result after the step
ClosingPair(n) ==
  LET l == heap'[result].race_section_changes[n] IN l[Len(l)]

\* C18 as stated: the closing SECTION_CHANGE entry of a transition carries, in
\* the LogEntry and in the pair appended to the closing race's change list,
\* the section of the previous row, not BOARDING_IC.
C18_ClosingEntryIsSectionLeft ==
  [][TransitionStep =>
       /\ Appended[1].section_id = SectionLeft
       /\ ClosingPair(_race_count)[1] = SectionLeft]_vars

\* C18, amended: the closing SECTION_CHANGE entry of a transition carries, in
\* the LogEntry and in the pair appended to the closing race's change list,
\* the section entered, BOARDING_IC, with the timestamp of the transition
\* row; the section of the previous row appears in neither.
C18_ClosingEntryIsBoardingIc ==
  [][TransitionStep =>
       LET t == TimeOfRow([header |-> header, rows |-> rows'], Len(rows'))
       IN  /\ Appended[1].log_type = "SECTION_CHANGE"
           /\ Appended[1].section_id = SECTION_BOARDINGIC
           /\ Appended[1].context = MODE_TABLE[SECTION_BOARDINGIC]
           /\ Appended[1].time = t
           /\ ClosingPair(_race_count) = Pair(SECTION_BOARDINGIC, t)
           /\ SectionLeft # SECTION_BOARDINGIC]_vars

\* the pass has just read a transition row: race 0 was left in ENTERING or in
\* an unknown section, and its change list ends with BOARDING_IC
C18_Witness ==
  /\ pc = "rows"
  /\ _race_count = 1
  /\ Len(rows) \in Transitions(Running)
  /\ LET l == heap[result].race_section_changes[0]
     IN  /\ Len(l) >= 2
         /\ l[Len(l)][1] = SECTION_BOARDINGIC
         /\ l[Len(l) - 1][1] # SECTION_BOARDINGIC
         /\ heap[result].race_times[0].end = l[Len(l)][2]

\* ------------------------------------------------- the end of the stream
\* the step in which the pass finds no further line and returns
ReturnStep == pc = "rows" /\ pc' = "idle" /\ rows' = rows /\ outcome' = "returned"

\* the last entry of logs is the SECTION_CHANGE of the last row's section at
\* the last row's timestamp: the final entry would repeat it
LastRowLogged ==
  LET logs == heap[result].logs
      last == logs[Len(logs)]
  IN  /\ last.log_type = "SECTION_CHANGE"
      /\ last.time = TimeOfRow(Running, Len(rows))
      /\ last.section_id = SectionOfRow(Running, Len(rows))

\* the step appends to logs one SECTION_CHANGE for the last row's section at
\* the last row's timestamp
FinalEntryLogged ==
  /\ Len(Appended) = 1
  /\ SubSeq(heap'[result].logs, 1, Len(heap[result].logs)) = heap[result].logs
  /\ Appended[1].log_type = "SECTION_CHANGE"
  /\ Appended[1].time = TimeOfRow(Running, Len(rows))
  /\ Appended[1].section_id = SectionOfRow(Running, Len(rows))

\* the step appends the pair of the last row to the open race's change list
FinalPairRecorded ==
  heap'[result].race_section_changes =
    [heap[result].race_section_changes EXCEPT ![_race_count] =
       Append(@, Pair(SectionOfRow(Running, Len(rows)), TimeOfRow(Running, Len(rows))))]

AfterFirstRow ==
  /\ HasTime(header)
  /\ Len(rows) = 1
  /\ Complete(Running)
  /\ pc = "rows" \/ (pc = "idle" /\ outcome # "returned")

\* all rows read so far are BOARDING_IC rows
OnlyBoardingIc ==
  /\ rows # <<>>
  /\ Complete(Running)
  /\ \A k \in DOMAIN rows : SectionOfRow(Running, k) = SECTION_BOARDINGIC

\* C20: once the first row is processed, logs is exactly the RACE_INFO banner
\* of race 0 followed by the SECTION_CHANGE of the row's section, race_times
\* is {0: (row timestamp, None)} and _race_count is 0, whatever the row's
\* section; BOARDING_IC rows from the first row on open no race 1.
C20_FirstRowOpensRaceZero ==
  /\ AfterFirstRow =>
       LET res == heap[result]
           t == TimeOfRow(Running, 1)
       IN  /\ Len(res.logs) = 2
           /\ res.logs[1].log_type = "RACE_INFO"
           /\ res.logs[1].context = RaceBanner(0)
           /\ res.logs[2].log_type = "SECTION_CHANGE"
           /\ res.logs[2].section_id = SectionOfRow(Running, 1)
           /\ res.logs[2].time = t
           /\ res.race_times = (0 :> [start |-> t, end |-> NoneStr])
           /\ _race_count = 0
  /\ (pc = "rows" /\ HasTime(header) /\ OnlyBoardingIc) =>
       /\ _race_count = 0
       /\ DOMAIN heap[result].race_times = {0}

\* ------------------------------------------ rows after the first
\* the step reads a complete row after the first row
LaterRowStep ==
  /\ pc = "rows"
  /\ rows # <<>>
  /\ Len(rows') = Len(rows) + 1
  /\ Complete([header |-> header, rows |-> rows'])

\* C21: a complete row after the first whose section is the previous row's
\* leaves logs, race_times, race_section_changes and _race_count as they are,
\* whatever its area, and only advances _prev_section and _prev_area; a row
\* whose section differs without entering BOARDING_IC appends exactly one
\* SECTION_CHANGE, recorded under the current race index, and changes no
\* entry of race_times nor _race_count.
C21_RowFrame ==
  [][LaterRowStep =>
       LET c == [header |-> header, rows |-> rows']
           k == Len(rows')
           s == SectionOfRow(c, k)
           old == heap[result]
           new == heap'[result]
       IN  /\ s = SectionOfRow(c, k - 1) =>
                /\ new = old
                /\ _race_count' = _race_count
                /\ _prev_section' = s
                /\ _prev_area' = AreaOfRow(c, k)
                /\ pc' = "rows"
           /\ (s # SectionOfRow(c, k - 1) /\ s # SECTION_BOARDINGIC) =>
                /\ Len(Appended) = 1
                /\ SubSeq(new.logs, 1, Len(old.logs)) = old.logs
                /\ Appended[1].log_type = "SECTION_CHANGE"
                /\ Appended[1].section_id = s
                /\ Appended[1].time = TimeOfRow(c, k)
                /\ new.race_section_changes =
                     [old.race_section_changes EXCEPT ![_race_count] =
                        Append(@, Pair(s, TimeOfRow(c, k)))]
                /\ new.race_times = old.race_times
                /\ _race_count' = _race_count
                /\ pc' = "rows"]_vars

\* the pass has just read a row that repeats the section of the row before
\* with another area, after a plain section change in race 1
C21_Witness ==
  /\ pc = "rows"
  /\ Len(rows) >= 3
  /\ _race_count = 1
  /\ SectionOfRow(Running, Len(rows)) = SectionOfRow(Running, Len(rows) - 1)
  /\ AreaOfRow(Running, Len(rows)) # AreaOfRow(Running, Len(rows) - 1)
  /\ SectionOfRow(Running, Len(rows)) # SECTION_BOARDINGIC
  /\ Len(heap[result].race_section_changes[1]) = 2

\* ------------------------------------------------- logs as a sequence
IsRaceInfo(e) == e.log_type = "RACE_INFO"

\* the RACE_INFO entries of logs, in their order
RaceInfos(logs) == SelectSeq(logs, IsRaceInfo)

\* C22: logs only grows at its end: every step leaves the entries of every
\* result object in place and unchanged, the entries a step of the pass
\* appends are those of the row just read (of the last row, after the loop),
\* so entries follow the rows' order, and the RACE_INFO entries of the
\* engine's result name the races 0, 1, .., _race_count in that order, once
\* each, _race_count being total_race_count when the pass returns.
C22_LogsAppendOnly ==
  /\ [][/\ \A o \in DOMAIN heap :
             /\ Len(heap'[o].logs) >= Len(heap[o].logs)
             /\ SubSeq(heap'[o].logs, 1, Len(heap[o].logs)) = heap[o].logs
        /\ pc = "rows" =>
             \A k \in DOMAIN Appended :
               Appended[k].time = TimeOfRow([header |-> header, rows |-> rows'], Len(rows'))]_vars
  /\ [](LET infos == RaceInfos(heap[result].logs)
        IN  /\ heap[result].logs # <<>> =>
                /\ Len(infos) = _race_count + 1
                /\ \A r \in 0 .. _race_count : infos[r + 1].context = RaceBanner(r)
            /\ (pc = "idle" /\ outcome = "returned") =>
                 heap[result].total_race_count = _race_count)

\* a returned pass with three races whose entries carry two timestamps, the
\* earlier ones first
C22_Witness ==
  /\ pc = "idle" /\ outcome = "returned"
  /\ heap[result].total_race_count = 2
  /\ Len(RaceInfos(heap[result].logs)) = 3
  /\ LET logs == heap[result].logs
     IN  /\ logs[1].time # logs[Len(logs)].time
         /\ logs[1].time = TimeOfRow(Running, 1)
         /\ logs[Len(logs)].time = TimeOfRow(Running, Len(rows))

\* ----------------------------------- race_times and race_section_changes
\* C23: in every result analyze returns, race_times and race_section_changes
\* have the same keys, every race's change list is non-empty, its first pair
\* carries the race's start and its last pair the race's end, and for r >= 1
\* the first pair's section is BOARDING_IC.
C23_TimesMatchChanges ==
  \A c \in Returned :
    LET res == c.snap
    IN  /\ DOMAIN res.race_times = DOMAIN res.race_section_changes
        /\ \A r \in DOMAIN res.race_times :
             LET l == res.race_section_changes[r]
             IN  /\ l # <<>>
                 /\ l[1][2] = res.race_times[r].start
                 /\ l[Len(l)][2] = res.race_times[r].end
                 /\ r >= 1 => l[1][1] = SECTION_BOARDINGIC

\* a returned result with two races: race 0 has several pairs, race 1 ends
\* later than it starts
C23_Witness ==
  \E c \in Returned :
    /\ c.snap.total_race_count = 1
    /\ Len(c.snap.race_section_changes[0]) >= 3
    /\ Len(c.snap.race_section_changes[1]) >= 2
    /\ c.snap.race_times[1].start # c.snap.race_times[1].end

\* ------------------------------- two passes on the one instance, interleaved
\* the fields of the instance, and the locals of the pass the actions
\* analyze, ReadRow and Exhausted run
fields == <<result, _prev_area, _prev_section, _race_count>>

frame ==
  <<pc, fieldnames, area_key, section_key, i, time, section_id, current_area_id,
    area_int, header, rows, outcome, calls>>

\* the locals of a second pass on the same instance are those of the record
\* second; its fields are the instance's
FrameB ==
  [res |-> heap[result], prev_area |-> _prev_area, prev_section |-> _prev_section,
   race_count |-> _race_count, time |-> second.time, section_id |-> second.section_id,
   current_area_id |-> second.current_area_id, area_int |-> second.area_int,
   exc |-> ""]

\* analyzeB leaving the counter and the previous state as the other pass set them
analyzeB_noreset(h) ==
  /\ second.pc = "absent"
  /\ heap' = NewResult(heap).heap
  /\ result' = NewResult(heap).ref
  /\ UNCHANGED <<_prev_area, _prev_section, _race_count>>
  /\ LET s == [second EXCEPT !.header = h, !.rows = <<>>, !.overlap = pc = "rows"]
     IN  second' =
           IF h = <<>> THEN EndPass2(s, "TypeError", 0)
           ELSE IF MissingSection(FindKey(StripAll(h), <<"section">>))
                THEN EndPass2(s, "KeyError", 0)
           ELSE [s EXCEPT !.pc = "rows", !.fieldnames = StripAll(h),
                          !.area_key = FindKey(StripAll(h), <<"area">>),
                          !.section_key = FindKey(StripAll(h), <<"section">>),
                          !.i = 0, !.time = <<>>]
  /\ UNCHANGED <<frame, files, exports, gui>>

\* lines 132-148: a second call of analyze on the same instance
analyzeB(h) ==
  /\ second.pc = "absent"
  /\ heap' = NewResult(heap).heap
  /\ result' = NewResult(heap).ref
  /\ _prev_area' = NoneInt
  /\ _prev_section' = NoneInt
  /\ _race_count' = 0
  /\ LET s == [second EXCEPT !.header = h, !.rows = <<>>, !.overlap = pc = "rows"]
     IN  second' =
           IF h = <<>> THEN EndPass2(s, "TypeError", 0)
           ELSE IF MissingSection(FindKey(StripAll(h), <<"section">>))
                THEN EndPass2(s, "KeyError", 0)
           ELSE [s EXCEPT !.pc = "rows", !.fieldnames = StripAll(h),
                          !.area_key = FindKey(StripAll(h), <<"area">>),
                          !.section_key = FindKey(StripAll(h), <<"section">>),
                          !.i = 0, !.time = <<>>]
  /\ UNCHANGED <<frame, files, exports, gui>>

\* lines 149-213, in the second pass
ReadRowB(line) ==
  /\ second.pc = "rows"
  /\ LET g == LoopBody(FrameB, second.i, RowDict(second.fieldnames, line),
                       second.area_key, second.section_key)
         s == [second EXCEPT !.rows = Append(second.rows, line),
                             !.overlap = @ \/ pc = "rows"]
     IN  /\ heap' = [heap EXCEPT ![result] = g.res]
         /\ _prev_area' = g.prev_area
         /\ _prev_section' = g.prev_section
         /\ _race_count' = g.race_count
         /\ second' =
               IF g.exc # "" THEN EndPass2(s, g.exc, 0)
               ELSE [s EXCEPT !.i = second.i + 1, !.time = g.time,
                              !.section_id = g.section_id,
                              !.current_area_id = g.current_area_id,
                              !.area_int = g.area_int]
  /\ UNCHANGED <<result, frame, files, exports, gui>>

\* lines 218-231, in the second pass
ExhaustedB ==
  /\ second.pc = "rows"
  /\ LET g == AfterLoop(FrameB)
     IN  /\ heap' = [heap EXCEPT ![result] = g.res]
         /\ second' = IF g.exc # "" THEN EndPass2(second, g.exc, 0)
                      ELSE EndPass2(second, "returned", result)
  /\ UNCHANGED <<fields, frame, files, exports, gui>>

OpenB == \E F \in RerunFiles : analyzeB(F.header)

RowB ==
  /\ second.pc = "rows"
  /\ \E F \in RerunFiles :
       /\ F.header = second.header
       /\ Len(second.rows) < Len(F.lines)
       /\ SubSeq(F.lines, 1, Len(second.rows)) = second.rows
       /\ ReadRowB(F.lines[Len(second.rows) + 1])

ExhaustedFileB ==
  /\ second.pc = "rows"
  /\ \E F \in RerunFiles : F.header = second.header /\ F.lines = second.rows
  /\ ExhaustedB

NextShared ==
  \/ OpenFirst \/ RowRerun \/ ExhaustedRerun
  \/ OpenB \/ RowB \/ ExhaustedFileB

SpecShared == Init /\ [][NextShared]_vars

\* a pass calls analyze while the other pass is inside its loop
CallDuringOtherPass ==
  \/ pc = "rows" /\ second.pc = "absent" /\ second'.pc # "absent"
  \/ second.pc = "rows" /\ pc = "idle" /\ calls = <<>> /\ header' # header

\* C24: two passes interleaved at row boundaries on one LogAnalyzer are not
\* safe.  A call of analyze during the other pass replaces self.result by a
\* new empty object and resets _prev_area, _prev_section and _race_count under
\* the running pass; every later step of either pass writes the object
\* self.result names then; and two passes of which one read a row during the
\* other return the same object.  The witness is an interleaving in which the
\* returned result differs from the result of the pass run alone.
C24_SharedInstance ==
  /\ [][/\ CallDuringOtherPass =>
             /\ result' \notin DOMAIN heap
             /\ heap'[result'] = EmptyResult
             /\ _prev_area' = NoneInt
             /\ _prev_section' = NoneInt
             /\ _race_count' = 0
        /\ \A o \in DOMAIN heap : o # result => heap'[o] = heap[o]]_vars
  /\ []((pc = "idle" /\ outcome = "returned" /\ second.outcome = "returned"
           /\ second.overlap)
          => calls[1].ret = second.ret)

\* the first pass has returned, the second pass having called analyze and read
\* a row while the first was inside its loop: what the first pass returned is
\* not the result of the pass alone on its file
C24_Witness ==
  /\ pc = "idle" /\ outcome = "returned"
  /\ second.overlap
  /\ second.rows # <<>>
  /\ calls[1].snap # Alone(calls[1].header, calls[1].rows).res
  /\ Alone(calls[1].header, calls[1].rows).outcome = "returned"

\* ------------------------------------------------------------ the window
\* (src/ui_manager.py, src/grafana_api.py, src/util.py)

\* timestamps in the format the upload parses, "%Y-%m-%d %H:%M:%S.%f"
W1 == <<"2025-10-23", " ", "15:39", ":", "31.065">>
W2 == <<"2025-10-23", " ", "15:39", ":", "45.500">>
W3 == <<"2025-10-23", " ", "15:40", ":", "02.000">>
W4 == <<"2025-10-23", " ", "15:41", ":", "10.250">>

\* the "N/A" the window puts where a time is missing
NA == <<"N/A">>

\* x or "N/A"
OrNA(x) == IF Falsy(x) THEN NA ELSE x

\* the tokens of the texts the window compares, in the order of their first
\* characters (tokens that can meet at one position have one length)
TokenRank ==
  (" " :> 0 @@ "02.000" :> 1 @@ "10.250" :> 2 @@ "15:39" :> 3 @@ "15:40" :> 4 @@
   "15:41" :> 5 @@ "2025-10-23" :> 6 @@ "31.065" :> 7 @@ "45.500" :> 8 @@
   ":" :> 9 @@ "N/A" :> 10 @@ "t1" :> 11 @@ "t2" :> 12 @@ "t3" :> 13 @@ "t4" :> 14)

\* str < str: the first position where the texts differ decides, and a proper
\* prefix is smaller
RECURSIVE StrLess(_, _)
StrLess(a, b) ==
  IF b = <<>> THEN FALSE
  ELSE IF a = <<>> THEN TRUE
  ELSE IF a[1] # b[1] THEN TokenRank[a[1]] < TokenRank[b[1]]
  ELSE StrLess(Tail(a), Tail(b))

\* str >= str and str <= str
StrGeq(a, b) == ~StrLess(a, b)
StrLeq(a, b) == ~StrLess(b, a)

\* datetime.strptime(s, "%Y-%m-%d %H:%M:%S.%f") succeeds
HourMinute == ("15:39" :> "1539" @@ "15:40" :> "1540" @@ "15:41" :> "1541")
Parses(s) ==
  /\ s # NoneStr
  /\ Len(s) = 5
  /\ s[1] = "2025-10-23" /\ s[2] = " " /\ s[3] \in DOMAIN HourMinute
  /\ s[4] = ":" /\ s[5] \in {"02.000", "10.250", "31.065", "45.500"}

\* dt.strftime("%Y-%m-%d_%H%M"): the seconds and their fraction are dropped
file_name_time(s) == <<s[1], "_", HourMinute[s[3]]>>

\* the csv files the user can point the window at; CsvDirPath is a directory
\* and every other path names nothing
RaceCsv == [header |-> FullHeader, rows |-> <<E3(W1), B3(W2), E3(W3), B3(W4)>>]
PlainCsv == [header |-> FullHeader, rows |-> <<E3(T1), B3(T2), E3(T3)>>]
HeaderCsv == [header |-> FullHeader, rows |-> <<>>]
NoSectionCsv == [header |-> NoSectionHeader, rows |-> <<<<W1, <<"3">>>>>>]
UiDisk ==
  ("race.csv" :> RaceCsv @@ "plain.csv" :> PlainCsv @@ "header.csv" :> HeaderCsv @@
   "nosection.csv" :> NoSectionCsv)

\* LogAnalyzer().analyze(csv_path) of a fresh analyzer: open fails for a path
\* that is no file, and the pass over a file is the pass of the analyzer
AnalyzeFile(csv_path) ==
  IF csv_path \notin DOMAIN UiDisk THEN [outcome |-> "OSError", res |-> EmptyResult]
  ELSE Alone(UiDisk[csv_path].header, UiDisk[csv_path].rows)

\* a handler on its way: the window, the server, the csv directory, what the
\* handler did so far, the dashboards it posted, the exception that ended it,
\* and what the delete_all functions and ConfigManager.set returned to it
Handler(u, g, c, cfg, did) ==
  [ui |-> u, grafana |-> g, csvdir |-> c, config |-> cfg, did |-> did,
   posted |-> <<>>, exc |-> "", results |-> <<>>]

\* the handler does one more thing
Did(w, what) == [w EXCEPT !.did = Append(@, what)]

\* UI_Tool._set_button_states
_set_button_states(w, enable) ==
  IF enable
  THEN Did([w EXCEPT !.ui.analyze_button = TRUE, !.ui.csv_browse_button = TRUE,
                     !.ui.delete_all_button = TRUE, !.ui.clear_button = TRUE,
                     !.ui.upload_button =
                        IF w.ui.current_state # INIT_STATE THEN TRUE ELSE @],
           "enable")
  ELSE Did([w EXCEPT !.ui.analyze_button = FALSE, !.ui.upload_button = FALSE,
                     !.ui.clear_button = FALSE, !.ui.delete_all_button = FALSE,
                     !.ui.csv_browse_button = FALSE],
           "disable")

\* UI_Tool.update_log_and_dashboard_range
update_log_and_dashboard_range(w, start_time, end_time) ==
  [w EXCEPT !.ui.start_time = start_time, !.ui.end_time = end_time]

\* UI_Tool._show_messagebox
_show_messagebox(w) == Did(w, "error box")

\* the items of the race selector: str(i) and back
RaceDigits == ("0" :> 0 @@ "1" :> 1 @@ "2" :> 2 @@ "3" :> 3 @@ "4" :> 4 @@ "5" :> 5)
AllRaces == <<"all races">>
RaceItem(n) == <<"Race", " ", CHOOSE d \in DOMAIN RaceDigits : RaceDigits[d] = n>>
RaceItems(total) ==
  <<AllRaces>> \o [k \in 1 .. total + 1 |-> RaceItem(k - 1)]

\* UI_Tool.click_analyze, from its first statement to its return
click_analyze_noreset(w0) ==
  LET csv_path == w0.ui.csv_path_input
      w1 == _set_button_states(w0, FALSE)
      a == AnalyzeFile(csv_path)
      res == a.res
      w2 == [Did(w1, "analyze") EXCEPT !.ui.analysis_result = Some(res)]
      w3 == update_log_and_dashboard_range(w2, OrNA(res.first_time), OrNA(res.last_time))
      w4 == [w3 EXCEPT !.ui.race_selector = ComboBox(RaceItems(res.total_race_count), TRUE),
                       !.ui.start_selector = ComboBox(<<<<"whole log start">>>>, FALSE),
                       !.ui.end_selector = ComboBox(<<<<"whole log end">>>>, FALSE),
                       !.ui.current_state = ANALYZE_STATE]
      f2 == [Did(w1, "analyze") EXCEPT
               !.ui.race_selector = ComboBox(<<<<"analysis failed">>>>, FALSE)]
  IN  IF csv_path = "" THEN _show_messagebox(w0)
      ELSE IF a.outcome = "returned" THEN _set_button_states(w4, TRUE)
      ELSE _set_button_states(f2, TRUE)

click_analyze(w0) ==
  LET csv_path == w0.ui.csv_path_input
      w1 == _set_button_states(w0, FALSE)
      a == AnalyzeFile(csv_path)
      res == a.res
      w2 == [Did(w1, "analyze") EXCEPT !.ui.analysis_result = Some(res)]
      w3 == update_log_and_dashboard_range(w2, OrNA(res.first_time), OrNA(res.last_time))
      w4 == [w3 EXCEPT !.ui.race_selector = ComboBox(RaceItems(res.total_race_count), TRUE),
                       !.ui.start_selector = ComboBox(<<<<"whole log start">>>>, FALSE),
                       !.ui.end_selector = ComboBox(<<<<"whole log end">>>>, FALSE),
                       !.ui.current_state = ANALYZE_STATE]
      f2 == [Did(w1, "analyze") EXCEPT
               !.ui.analysis_result = None,
               !.ui.race_selector = ComboBox(<<<<"analysis failed">>>>, FALSE),
               !.ui.current_state = INIT_STATE]
  IN  IF csv_path = "" THEN _show_messagebox(w0)
      ELSE IF a.outcome = "returned" THEN _set_button_states(w4, TRUE)
      ELSE _set_button_states(f2, TRUE)

\* UI_Tool.click_clearbtn
click_clearbtn(w0) ==
  LET w1 == [w0 EXCEPT !.ui.selected_race = INVALID_RACE_NUM,
                       !.ui.current_state = INIT_STATE]
      w2 == _set_button_states(w1, FALSE)
      w3 == [w2 EXCEPT !.ui.title_input = w0.ui.last_title,
                       !.ui.gr_name_input = w0.ui.last_gr_name,
                       !.ui.csv_path_input = w0.ui.last_csv_path,
                       !.ui.race_selector = ComboBox(<<<<"select after analysis">>>>, FALSE),
                       !.ui.start_selector = ComboBox(<<<<"select after analysis">>>>, FALSE),
                       !.ui.end_selector = ComboBox(<<<<"select after analysis">>>>, FALSE)]
  IN  _set_button_states(w3, TRUE)

\* UI_Tool._check_input
_check_input(u) == u.title_input # "" /\ u.gr_name_input # "" /\ u.csv_path_input # ""

\* str.upper of the GR ids the user types
UpperTable == ("" :> "" @@ "gr7" :> "GR7" @@ "gr8" :> "GR8")

\* f'[{gr_name}]_{title}'
DashboardTitle(gr_name, title) == <<"[", gr_name, "]_", title>>

\* os.path.join: the separator of the platform the tool is built for
os_sep == "\\"
csv_savedir == <<"cwd", os_sep, "csv">>
copy_csv_path(title, stamp) ==
  csv_savedir \o <<os_sep>> \o title \o <<"_">> \o file_name_time(stamp) \o <<".csv">>

\* util.normalize_path_for_grafana
normalize_path_for_grafana(absolute_path) ==
  IF Falsy(absolute_path) THEN <<>>
  ELSE [j \in DOMAIN absolute_path |->
          IF absolute_path[j] = "\\" THEN "/" ELSE absolute_path[j]]

\* dict.get(key) of a dict of texts
Get(d, k) == IF k \in DOMAIN d THEN d[k] ELSE NoneStr

\* no uid: None where the code expects a uid
NoUid == 0

\* the server answers POST /api/datasources: it keeps what was posted and
\* gives it an id and a uid
PostDatasource(g, payload) ==
  [g EXCEPT !.created = @ + 1,
            !.datasources = Append(@, [id |-> g.created + 1, uid |-> g.created + 1,
                                       name |-> payload.name, url |-> payload.url,
                                       jsonData |-> payload.jsonData])]

\* GrafanaAPI.create_csv_datasource: the payload it posts
DatasourcePayload(name, csv_path) ==
  [name |-> name, url |-> csv_path,
   jsonData |-> ("storage" :> <<"local">> @@ "pdcInjected" :> <<"false">> @@
                 "delimiter" :> <<",">>)]

\* GrafanaAPI.find_datasource_by_csv_path: the uid of the first data source
\* whose jsonData.path is the path, or None
find_datasource_by_csv_path(g, csv_file_path) ==
  LET hits == {k \in DOMAIN g.datasources :
                 /\ ~Falsy(Get(g.datasources[k].jsonData, "path"))
                 /\ Get(g.datasources[k].jsonData, "path") = csv_file_path}
  IN  IF hits = {} THEN NoUid
      ELSE g.datasources[CHOOSE k \in hits : \A m \in hits : k <= m].uid

\* GrafanaAPI.find_dashboard_by_title: the uid of the first dashboard that
\* has the title, or None
find_dashboard_by_title_never(g, title) == NoUid

find_dashboard_by_title(g, title) ==
  LET hits == {k \in DOMAIN g.dashboards : g.dashboards[k].title = title}
  IN  IF hits = {} THEN NoUid
      ELSE g.dashboards[CHOOSE k \in hits : \A m \in hits : k <= m].uid

\* the server answers POST /api/dashboards/db: a dashboard posted with the uid
\* of one it holds replaces that one when overwrite is set and is refused
\* otherwise; any other dashboard is stored as a new one (under the uid it
\* carries or a new uid), whatever its title
PostDashboard(g, uid, title, overwrite) ==
  LET held == {k \in DOMAIN g.dashboards : g.dashboards[k].uid = uid}
  IN  IF uid # NoUid /\ held # {}
      THEN IF overwrite
           THEN [ok |-> TRUE,
                 g |-> [g EXCEPT !.dashboards =
                          [k \in DOMAIN @ |-> IF k \in held
                                              THEN [uid |-> uid, title |-> title]
                                              ELSE @[k]]]]
           ELSE [ok |-> FALSE, g |-> g]
      ELSE [ok |-> TRUE,
            g |-> [g EXCEPT !.created = @ + 1,
                            !.dashboards =
                               Append(@, [uid |-> IF uid # NoUid THEN uid
                                                  ELSE g.created + 1,
                                          title |-> title])]]

\* GrafanaAPI.post_dashboard: nothing is posted when a bound of the range does
\* not parse; the answer of the server decides otherwise
post_dashboard(w, uid, title, target_uid, start_time, end_time, overwrite) ==
  IF ~Parses(start_time) \/ ~Parses(end_time) THEN [ok |-> FALSE, w |-> w]
  ELSE LET r == PostDashboard(w.grafana, uid, title, overwrite)
       IN  [ok |-> r.ok,
            w |-> [Did(w, "POST /api/dashboards/db") EXCEPT
                     !.grafana = r.g,
                     !.posted = Append(@, [uid |-> uid, title |-> title,
                                           overwrite |-> overwrite])]]

\* what a request of the requests library gives: a response with a status
\* code, or an exception of the library
Response(status_code) == [raises |-> "", status_code |-> status_code]
Raises(exception) == [raises |-> exception, status_code |-> 0]

\* the exceptions of the requests library and the classes each one is an
\* instance of, as the except clauses see them
RequestExceptions ==
  [Timeout |-> {"Timeout", "RequestException"},
   ReadTimeout |-> {"ReadTimeout", "Timeout", "RequestException"},
   ConnectTimeout |-> {"ConnectTimeout", "ConnectionError", "Timeout", "RequestException"},
   ConnectionError |-> {"ConnectionError", "RequestException"},
   SSLError |-> {"SSLError", "ConnectionError", "RequestException"},
   HTTPError |-> {"HTTPError", "RequestException"},
   TooManyRedirects |-> {"TooManyRedirects", "RequestException"},
   RequestException |-> {"RequestException"}]

IsInstance(exception, class) ==
  exception \in DOMAIN RequestExceptions /\ class \in RequestExceptions[exception]

\* response.raise_for_status(): the exception it raises, "" when it returns
raise_for_status(status_code) ==
  IF 400 <= status_code /\ status_code < 600 THEN "HTTPError" ELSE ""

\* what check_connection gives its caller: the pair it returns, or the
\* exception that leaves it
Returns(ok, message) == [ok |-> ok, message |-> message, exc |-> ""]
Propagates(exception) == [ok |-> FALSE, message |-> "", exc |-> exception]

\* the except clauses of GrafanaAPI.check_connection, in their order
ConnectionExcept(exception) ==
  IF IsInstance(exception, "Timeout") THEN Returns(FALSE, "timeout")
  ELSE IF IsInstance(exception, "ConnectionError") THEN Returns(FALSE, "connection error")
  ELSE IF IsInstance(exception, "RequestException") THEN Returns(FALSE, "request error")
  ELSE Propagates(exception)

\* GrafanaAPI.check_connection, given what GET /api/user gets
check_connection_success(answer) ==
  IF answer.raises # "" THEN ConnectionExcept(answer.raises)
  ELSE IF answer.status_code >= 200 /\ answer.status_code < 300
    THEN Returns(TRUE, "connected")
  ELSE IF raise_for_status(answer.status_code) # ""
    THEN ConnectionExcept(raise_for_status(answer.status_code))
  ELSE Returns(FALSE, "other HTTP status")

check_connection(answer) ==
  IF answer.raises # "" THEN ConnectionExcept(answer.raises)
  ELSE IF answer.status_code = 200 THEN Returns(TRUE, "connected")
  ELSE IF answer.status_code = 401 THEN Returns(FALSE, "HTTP 401")
  ELSE IF answer.status_code = 404 THEN Returns(FALSE, "HTTP 404")
  ELSE IF raise_for_status(answer.status_code) # ""
    THEN ConnectionExcept(raise_for_status(answer.status_code))
  ELSE Returns(FALSE, "other HTTP status")

\* what a click finds around the window: the server answers or not, and the
\* dashboard json file of the configuration can be loaded or not
Env == {"ok", "down", "nojson"}

\* what GET /api/user gets in each environment of a click: those of Env, and
\* those where the server is reached and refuses, or is not reached
UserAnswer ==
  [ok |-> Response(200), nojson |-> Response(200), down |-> Raises("ConnectionError"),
   nocontent |-> Response(204), redirect |-> Response(304),
   unauthorized |-> Response(401), forbidden |-> Response(403),
   notfound |-> Response(404), servererror |-> Response(500),
   timeout |-> Raises("Timeout"), readtimeout |-> Raises("ReadTimeout"),
   connecttimeout |-> Raises("ConnectTimeout"), ssl |-> Raises("SSLError"),
   redirects |-> Raises("TooManyRedirects"), request |-> Raises("RequestException")]

\* click_upload from the search for a data source to its last statement
UploadRequests(w7, title, gr_name, csv_path) ==
  LET u == w7.ui
      first_time == u.analysis_result[1].first_time
      w8 == Did(w7, "GET /api/datasources")
      existing_ds_uid == find_datasource_by_csv_path(w8.grafana, csv_path)
      name == <<gr_name, "_">> \o first_time \o <<"_", "uuid", w8.grafana.created>>
      w9 == IF existing_ds_uid # NoUid THEN w8
            ELSE [Did(w8, "POST /api/datasources") EXCEPT
                    !.grafana = PostDatasource(@, DatasourcePayload(name, csv_path))]
      target_ds_uid ==
        IF existing_ds_uid # NoUid THEN existing_ds_uid
        ELSE w9.grafana.datasources[Len(w9.grafana.datasources)].uid
      w10 == Did(w9, "GET /api/search")
      existing_uid == find_dashboard_by_title(w10.grafana, title)
      overwrite_flag == existing_uid # NoUid
      r == post_dashboard(w10, existing_uid, title, target_ds_uid,
                          u.start_time, u.end_time, overwrite_flag)
      w11 == IF r.ok
             THEN [Did(r.w, "upload complete") EXCEPT
                     !.ui.last_title = u.title_input,
                     !.ui.last_gr_name = u.gr_name_input]
             ELSE Did(r.w, "upload failed")
  IN  _set_button_states(w11, TRUE)

\* UI_Tool.click_upload, from its first statement to its return or to the
\* exception that leaves it
click_upload(w0, env) ==
  LET u == w0.ui
      w1 == _set_button_states(w0, FALSE)
      gr_name == UpperTable[u.gr_name_input]
      title == DashboardTitle(gr_name, u.title_input)
      original_csv_path == u.csv_path_input
      w2 == Did(w1, "makedirs")
      time_str == IF u.analysis_result = None THEN NoneStr
                  ELSE u.analysis_result[1].first_time
      copy_path == copy_csv_path(title, time_str)
      w3 == [Did(w2, "copy") EXCEPT !.csvdir = @ \cup {copy_path}]
      csv_path == normalize_path_for_grafana(copy_path)
      w4 == Did(w3, "check input")
      w5 == Did(w4, "check range")
      connection == check_connection(UserAnswer[env])
      w6 == Did(Did(w5, "GET /api/user"), "GET /api/user")
      w7 == Did(w6, "load json")
  IN  IF u.current_state # ANALYZE_STATE
        THEN _set_button_states(_show_messagebox(w1), TRUE)
      ELSE IF u.analysis_result = None THEN [w2 EXCEPT !.exc = "AttributeError"]
      ELSE IF time_str = NoneStr THEN [w2 EXCEPT !.exc = "TypeError"]
      ELSE IF ~Parses(time_str) THEN [w2 EXCEPT !.exc = "ValueError"]
      ELSE IF original_csv_path \notin DOMAIN UiDisk
        THEN _set_button_states(_show_messagebox(w2), TRUE)
      ELSE IF ~_check_input(u) THEN _set_button_states(_show_messagebox(w4), TRUE)
      ELSE IF Falsy(u.start_time) \/ Falsy(u.end_time)
        THEN _set_button_states(_show_messagebox(w5), TRUE)
      ELSE IF connection.exc # ""
        THEN [Did(w5, "GET /api/user") EXCEPT !.exc = connection.exc]
      ELSE IF ~connection.ok THEN _set_button_states(_show_messagebox(w6), TRUE)
      ELSE IF env = "nojson" THEN _set_button_states(w7, TRUE)
      ELSE UploadRequests(w7, title, gr_name, csv_path)

\* the text of an item of the start and end selectors
ChangeItem(change) ==
  <<"[", IF change[1] \in DOMAIN MODE_TABLE THEN MODE_TABLE[change[1]] ELSE "UNKNOWN_99",
    "]", " ", "(">> \o change[2] \o <<")">>

\* UI_Tool.select_race_selector
select_race_selector(w0, index) ==
  LET u == w0.ui
      res == u.analysis_result[1]
      selected_text == u.race_selector.items[index + 1]
      w1 == [w0 EXCEPT !.ui.start_selector = ComboBox(<<>>, FALSE),
                       !.ui.end_selector = ComboBox(<<>>, FALSE),
                       !.ui.selected_race = INVALID_RACE_NUM]
      race_number == RaceDigits[selected_text[3]]
      race_info == res.race_times[race_number]
      w2 == update_log_and_dashboard_range(w1, OrNA(race_info.start), OrNA(race_info.end))
      section_changes_list ==
        IF race_number \in DOMAIN res.race_section_changes
        THEN res.race_section_changes[race_number] ELSE <<>>
      items == [k \in DOMAIN section_changes_list |-> ChangeItem(section_changes_list[k])]
  IN  IF index < 0 \/ ~u.race_selector.enabled THEN w0
      ELSE IF u.current_state # ANALYZE_STATE \/ u.analysis_result = None THEN w0
      ELSE IF selected_text = AllRaces
        THEN [update_log_and_dashboard_range(w1, OrNA(res.first_time), OrNA(res.last_time))
                EXCEPT !.ui.start_selector = ComboBox(<<<<"whole log start">>>>, FALSE),
                       !.ui.end_selector = ComboBox(<<<<"whole log end">>>>, FALSE)]
      ELSE IF race_number \notin DOMAIN res.race_times THEN w1
      ELSE IF section_changes_list = <<>>
        THEN [w2 EXCEPT !.ui.start_selector = ComboBox(<<<<"no section change">>>>, FALSE),
                        !.ui.end_selector = ComboBox(<<<<"no section change">>>>, FALSE)]
      ELSE [w2 EXCEPT !.ui.start_selector = ComboBox(items, TRUE),
                      !.ui.end_selector =
                         [ComboBox(items, TRUE) EXCEPT !.index = Len(items) - 1],
                      !.ui.selected_race = race_number]

\* UI_Tool.select_start_selector
select_start_selector_nocheck(w0, index) ==
  LET u == w0.ui
      res == u.analysis_result[1]
      race_number == u.selected_race
      section_changes_list ==
        IF race_number \in DOMAIN res.race_section_changes
        THEN res.race_section_changes[race_number] ELSE <<>>
      new_start_time == section_changes_list[index + 1][2]
  IN  IF index < 0 \/ ~u.start_selector.enabled \/ u.analysis_result = None THEN w0
      ELSE IF u.current_state # ANALYZE_STATE \/ DOMAIN res.race_section_changes = {} THEN w0
      ELSE IF index >= Len(section_changes_list) THEN _show_messagebox(w0)
      ELSE IF Falsy(new_start_time) \/ Falsy(u.end_time) THEN _show_messagebox(w0)
      ELSE update_log_and_dashboard_range(w0, new_start_time, u.end_time)

select_start_selector(w0, index) ==
  LET u == w0.ui
      res == u.analysis_result[1]
      race_number == u.selected_race
      section_changes_list ==
        IF race_number \in DOMAIN res.race_section_changes
        THEN res.race_section_changes[race_number] ELSE <<>>
      new_start_time == section_changes_list[index + 1][2]
  IN  IF index < 0 \/ ~u.start_selector.enabled \/ u.analysis_result = None THEN w0
      ELSE IF u.current_state # ANALYZE_STATE \/ DOMAIN res.race_section_changes = {} THEN w0
      ELSE IF index >= Len(section_changes_list) THEN _show_messagebox(w0)
      ELSE IF Falsy(new_start_time) \/ Falsy(u.end_time) THEN _show_messagebox(w0)
      ELSE IF StrGeq(new_start_time, u.end_time) THEN _show_messagebox(w0)
      ELSE update_log_and_dashboard_range(w0, new_start_time, u.end_time)

\* UI_Tool.select_end_selector
select_end_selector(w0, index) ==
  LET u == w0.ui
      res == u.analysis_result[1]
      race_number == u.selected_race
      section_changes_list ==
        IF race_number \in DOMAIN res.race_section_changes
        THEN res.race_section_changes[race_number] ELSE <<>>
      new_end_time == section_changes_list[index + 1][2]
  IN  IF index < 0 \/ ~u.end_selector.enabled \/ u.analysis_result = None THEN w0
      ELSE IF u.current_state # ANALYZE_STATE \/ DOMAIN res.race_section_changes = {} THEN w0
      ELSE IF index >= Len(section_changes_list) THEN _show_messagebox(w0)
      ELSE IF Falsy(new_end_time) \/ Falsy(u.start_time) THEN _show_messagebox(w0)
      ELSE IF StrLeq(new_end_time, u.start_time) THEN _show_messagebox(w0)
      ELSE update_log_and_dashboard_range(w0, u.start_time, new_end_time)

\* what the requests of a click on the delete button get in each environment
\* of the click: the answer to a request for a list, the items whose DELETE
\* request gets something else than 200 ("none", "first", "last" or "all" of
\* the listed ones), and what such a request gets
DeleteAnswers ==
  [ok |-> [list |-> Response(200), failing |-> "none", delete |-> Response(200)],
   down |-> [list |-> Raises("ConnectionError"), failing |-> "all",
             delete |-> Raises("ConnectionError")],
   listerror |-> [list |-> Response(500), failing |-> "none", delete |-> Response(200)],
   listtimeout |-> [list |-> Raises("Timeout"), failing |-> "none",
                    delete |-> Response(200)],
   firstrefused |-> [list |-> Response(200), failing |-> "first",
                     delete |-> Response(403)],
   lastdropped |-> [list |-> Response(200), failing |-> "last",
                    delete |-> Raises("ConnectionError")],
   allrefused |-> [list |-> Response(200), failing |-> "all", delete |-> Response(500)]]

\* what the DELETE request of item k of n listed items gets
DeleteAnswer(env, k, n) ==
  LET e == DeleteAnswers[env]
  IN  IF \/ e.failing = "all"
         \/ e.failing = "first" /\ k = 1
         \/ e.failing = "last" /\ k = n
      THEN e.delete ELSE Response(200)

\* GrafanaAPI._get_items_for_deletion: the list the server holds when it
\* answers 200, the empty list for any other answer
_get_items_for_deletion(held, answer) ==
  IF answer.raises # "" THEN <<>>
  ELSE IF answer.status_code = 200 THEN held
  ELSE <<>>

\* GrafanaAPI.delete_dashboard, and the same test in delete_all_datasources:
\* the item counts as deleted when the request got 200
delete_dashboard(answer) == answer.raises = "" /\ answer.status_code = 200

\* the items of a list that are left when those at the positions gone are
\* taken out
RECURSIVE Remaining(_, _, _)
Remaining(items, gone, k) ==
  IF k > Len(items) THEN <<>>
  ELSE (IF k \in gone THEN <<>> ELSE <<items[k]>>) \o Remaining(items, gone, k + 1)

\* the requests one of the two delete_all functions sends, in their order
DeleteRequests(w, list_request, delete_request, sent) ==
  [w EXCEPT !.did = @ \o <<list_request>> \o [k \in 1 .. sent |-> delete_request]]

\* what a delete_all function returns when the list it got is empty
NothingToDelete(name) ==
  [call |-> name, overall_success |-> TRUE, listed |-> 0,
   success_count |-> 0, fail_count |-> 0]

\* GrafanaAPI.delete_all_dashboards: its result is appended to the results of
\* the frame
delete_all_dashboards(w, env) ==
  LET dashboards == _get_items_for_deletion(w.grafana.dashboards, DeleteAnswers[env].list)
      n == Len(dashboards)
      with_uid == {k \in 1 .. n : dashboards[k].uid # NoUid}
      gone == {k \in with_uid : delete_dashboard(DeleteAnswer(env, k, n))}
      success_count == Cardinality(gone)
      fail_count == n - success_count
      w1 == DeleteRequests(w, "GET /api/search", "DELETE /api/dashboards/uid",
                           Cardinality(with_uid))
  IN  IF n = 0 THEN [w1 EXCEPT !.results = Append(@, NothingToDelete("delete_all_dashboards"))]
      ELSE [w1 EXCEPT !.grafana.dashboards = Remaining(dashboards, gone, 1),
                      !.results = Append(@, [call |-> "delete_all_dashboards",
                                             overall_success |-> fail_count = 0,
                                             listed |-> n,
                                             success_count |-> success_count,
                                             fail_count |-> fail_count])]

\* GrafanaAPI.delete_all_datasources
delete_all_datasources(w, env) ==
  LET datasources == _get_items_for_deletion(w.grafana.datasources, DeleteAnswers[env].list)
      n == Len(datasources)
      with_id == {k \in 1 .. n : datasources[k].id # 0}
      gone == {k \in with_id : delete_dashboard(DeleteAnswer(env, k, n))}
      success_count == Cardinality(gone)
      fail_count == n - success_count
      w1 == DeleteRequests(w, "GET /api/datasources", "DELETE /api/datasources/id",
                           Cardinality(with_id))
  IN  IF n = 0 THEN [w1 EXCEPT !.results = Append(@, NothingToDelete("delete_all_datasources"))]
      ELSE [w1 EXCEPT !.grafana.datasources = Remaining(datasources, gone, 1),
                      !.results = Append(@, [call |-> "delete_all_datasources",
                                             overall_success |-> fail_count = 0,
                                             listed |-> n,
                                             success_count |-> success_count,
                                             fail_count |-> fail_count])]

\* UI_Tool.click_delete_all_btn: the final status it writes is that of the two
\* results together
click_delete_all_btn(w0, reply, env) ==
  LET w1 == _set_button_states(w0, FALSE)
      w2 == delete_all_dashboards(w1, env)
      w3 == delete_all_datasources(w2, env)
      overall_success == \A k \in DOMAIN w3.results : w3.results[k].overall_success
      w4 == Did(w3, IF overall_success THEN "all deleted" ELSE "delete failed")
  IN  IF reply # "Yes" THEN w0 ELSE _set_button_states(w4, TRUE)

\* the values ConfigParser refuses to set: BasicInterpolation.before_set raises
\* ValueError for a value with a '%' that starts no interpolation
PercentValues == {"50%.csv"}

\* what happens to config.ini when _save_config opens it for writing: it is
\* written; or open fails and the file is as it was; or the write fails after
\* open has truncated the file
DiskOutcomes == {"written", "denied", "full"}

\* ConfigManager.get of the DEFAULT section: the value in memory, or the
\* fallback None
config_get(cfg, key) ==
  IF optionxform[key] \in DOMAIN cfg.memory THEN cfg.memory[optionxform[key]]
  ELSE NoneStr

\* ConfigManager._save_config: the configuration after it, and what it returns
_save_config(cfg, write) ==
  IF write = "written"
    THEN [config |-> [cfg EXCEPT !.disk = cfg.memory], ok |-> TRUE, message |-> "",
          exc |-> ""]
  ELSE IF write = "denied"
    THEN [config |-> cfg, ok |-> FALSE, message |-> "save failed", exc |-> ""]
  ELSE [config |-> [cfg EXCEPT !.disk = EmptyDict], ok |-> FALSE, message |-> "save failed",
        exc |-> ""]

\* ConfigManager.set of the DEFAULT section: the value is set in memory, then
\* the configuration is saved
config_set(cfg, key, value, write) ==
  IF value \in PercentValues
    THEN [config |-> cfg, ok |-> FALSE, message |-> "", exc |-> "ValueError"]
  ELSE _save_config([cfg EXCEPT !.memory = (optionxform[key] :> value) @@ @], write)

\* UI_Tool._save_initial_csv_path: what set returned is kept in the results of
\* the frame
_save_initial_csv_path(w, write) ==
  LET r == config_set(w.config, "LAST_CSV_PATH", w.ui.last_csv_path, write)
      w1 == [Did(w, "set LAST_CSV_PATH") EXCEPT
               !.config = r.config,
               !.results = Append(@, [call |-> "set", ok |-> r.ok,
                                      message |-> r.message])]
  IN  IF r.exc # "" THEN [Did(w, "set LAST_CSV_PATH") EXCEPT !.exc = r.exc]
      ELSE IF ~r.ok THEN _show_messagebox(w1)
      ELSE w1

\* UI_Tool._select_csv_path: the dialog gives the path of a file, or nothing
_select_csv_path(w0, file_path, write) ==
  IF file_path = "" THEN w0
  ELSE _save_initial_csv_path(
         [w0 EXCEPT !.ui.csv_path_input = file_path, !.ui.last_csv_path = file_path],
         write)

\* what the window leaves alone
analyzers == <<heap, first, second, files, exports>>

\* a handler returns, or the exception that left it reaches the event loop
Finish(name, arg, w) ==
  /\ ui' = w.ui
  /\ grafana' = w.grafana
  /\ csvdir' = w.csvdir
  /\ handled' = [handler |-> name, arg |-> arg, did |-> w.did, posted |-> w.posted,
                 exc |-> w.exc, results |-> w.results]
  /\ config' = w.config
  /\ UNCHANGED analyzers

\* the user edits an input field: no handler runs
Edit(u) ==
  /\ ui' = u
  /\ handled' = NoHandler
  /\ UNCHANGED <<analyzers, grafana, csvdir, config>>

Entered == Handler(ui, grafana, csvdir, config, <<>>)

\* the server is asked to create at most MaxCreated objects
MaxCreated == 4

\* what the user types into the input fields, and the files the user picks
Titles == {"run", "lap"}
GrNames == {"", "gr7"}
TypedPaths == {"", "gone.csv"}
UploadFiles == {"race.csv", "plain.csv"}

\* the clicks: a disabled button gives none
ClickAnalyze ==
  /\ ui.analyze_button
  /\ Finish("click_analyze", <<>>, click_analyze(Entered))

ClickUploadIn(envs) ==
  /\ ui.upload_button
  /\ grafana.created + 2 <= MaxCreated
  /\ \E env \in envs : Finish("click_upload", <<env>>, click_upload(Entered, env))

ClickUpload == ClickUploadIn(Env)

ClickClear ==
  /\ ui.clear_button
  /\ Finish("click_clearbtn", <<>>, click_clearbtn(Entered))

ClickDeleteAllIn(envs) ==
  /\ ui.delete_all_button
  /\ \E reply \in {"Yes", "No"}, env \in envs :
       Finish("click_delete_all_btn", <<reply, env>>,
              click_delete_all_btn(Entered, reply, env))

ClickDeleteAll == ClickDeleteAllIn({"ok", "down"})

ClickBrowseOn(picks, writes) ==
  /\ ui.csv_browse_button
  /\ \E file_path \in picks, write \in writes :
       Finish("_select_csv_path", <<file_path, write>>,
              _select_csv_path(Entered, file_path, write))

ClickBrowse(picks) == ClickBrowseOn(picks, {"written"})

EditTitle == \E x \in Titles : Edit([ui EXCEPT !.title_input = x])

EditGrName == \E x \in GrNames : Edit([ui EXCEPT !.gr_name_input = x])

EditCsvPath == \E x \in TypedPaths : Edit([ui EXCEPT !.csv_path_input = x])

\* the buttons and the input fields
NextUpload ==
  \/ ClickAnalyze
  \/ ClickUpload
  \/ ClickClear
  \/ ClickDeleteAll
  \/ ClickBrowse(UploadFiles)
  \/ EditTitle
  \/ EditGrName
  \/ EditCsvPath

SpecUpload == Init /\ [][NextUpload]_vars

\* the user picks another item of an enabled selector: the box shows it and
\* its currentIndexChanged signal runs the handler (the signals the handlers
\* themselves cause by clearing and filling a selector meet a guard that
\* returns at once)
Picks(box) == {k \in 0 .. Len(box.items) - 1 : box.enabled /\ k # box.index}

SelectRace ==
  \E index \in Picks(ui.race_selector) :
    Finish("select_race_selector", <<index>>,
           select_race_selector([Entered EXCEPT !.ui.race_selector.index = index], index))

SelectStart ==
  \E index \in Picks(ui.start_selector) :
    Finish("select_start_selector", <<index>>,
           select_start_selector([Entered EXCEPT !.ui.start_selector.index = index], index))

SelectEnd ==
  \E index \in Picks(ui.end_selector) :
    Finish("select_end_selector", <<index>>,
           select_end_selector([Entered EXCEPT !.ui.end_selector.index = index], index))

\* analysis and the three selectors
NextSelect ==
  \/ ClickAnalyze
  \/ ClickClear
  \/ ClickBrowse(DOMAIN UiDisk \cup {""})
  \/ SelectRace
  \/ SelectStart
  \/ SelectEnd

SpecSelect == Init /\ [][NextSelect]_vars

\* ---------------------------------------------------------------- C25
\* the handler that ran in the step
Ran(name) == handled'.handler = name

\* the analysis the click starts fails: analyze raises for the path in the field
AnalysisFails ==
  ui.csv_path_input # "" /\ AnalyzeFile(ui.csv_path_input).outcome # "returned"

\* C25: in every state of the window, current_state = ANALYZE_STATE implies
\* that analysis_result is set; an analyze click whose analysis fails leaves
\* analysis_result None and current_state INIT_STATE; a clear click leaves
\* current_state INIT_STATE.
C25_AnalyzeStateHasResult ==
  /\ [](ui.current_state = ANALYZE_STATE => ui.analysis_result # None)
  /\ [][/\ (Ran("click_analyze") /\ AnalysisFails)
             => (ui'.analysis_result = None /\ ui'.current_state = INIT_STATE)
        /\ Ran("click_clearbtn") => ui'.current_state = INIT_STATE]_vars

\* an analysis has failed in a window that had uploaded an analysed file
C25_Witness ==
  /\ handled.handler = "click_analyze"
  /\ handled.did = <<"disable", "analyze", "enable">>
  /\ ui.analysis_result = None
  /\ ui.current_state = INIT_STATE
  /\ csvdir # {}

\* ---------------------------------------------------------------- C26
\* what click_upload validates before it may act
UploadAllowed ==
  /\ ui.current_state = ANALYZE_STATE
  /\ ui.title_input # "" /\ ui.gr_name_input # "" /\ ui.csv_path_input # ""
  /\ ~Falsy(ui.start_time) /\ ~Falsy(ui.end_time)

\* the outward effects of a handler and the validations of click_upload
Effects ==
  {"copy", "GET /api/user", "GET /api/datasources", "POST /api/datasources",
   "GET /api/search", "POST /api/dashboards/db"}
Validations == {"check input", "check range"}

\* C26: a click on upload copies no file and sends no request unless the
\* state is ANALYZE_STATE, the three input fields are non-empty and both ends
\* of the range are set, and none of its effects comes before one of its
\* validations.
C26_ValidateBeforeEffect ==
  [][Ran("click_upload") =>
       LET did == handled'.did
       IN  /\ UploadAllowed
             \/ (csvdir' = csvdir /\ grafana' = grafana
                 /\ \A k \in DOMAIN did : did[k] \notin Effects)
           /\ \A k, m \in DOMAIN did :
                (did[k] \in Effects /\ did[m] \in Validations) => m < k]_vars

\* ---------------------------------------------------------------- C27
\* the handler of the step disabled the buttons
Disabled == \E k \in DOMAIN handled'.did : handled'.did[k] = "disable"

\* C27: a handler that disabled the buttons leaves the analyze, clear and
\* delete-all buttons enabled, and the upload button too unless the state is
\* INIT_STATE, on whatever path it ends; and in every state between two
\* handlers an enabled upload button implies current_state # INIT_STATE.
C27_ButtonsReenabled ==
  /\ [](ui.upload_button => ui.current_state # INIT_STATE)
  /\ [][Disabled =>
          /\ ui'.analyze_button /\ ui'.clear_button /\ ui'.delete_all_button
          /\ ui'.current_state # INIT_STATE => ui'.upload_button]_vars

\* the second half of C27 alone
C27_UploadEnabledOnlyAfterAnalysis == ui.upload_button => ui.current_state # INIT_STATE

\* ---------------------------------------------------------------- C28
\* the change list of the selected race and the entry the user picked
SelectedChanges == ui.analysis_result[1].race_section_changes[ui.selected_race]
Picked == SelectedChanges[handled'.arg[1] + 1][2]
RangeKept == ui'.start_time = ui.start_time /\ ui'.end_time = ui.end_time
ErrorShown == \E k \in DOMAIN handled'.did : handled'.did[k] = "error box"

\* C28: a start selection whose timestamp is not below the current end_time,
\* and an end selection whose timestamp is not above the current start_time,
\* is answered with an error and leaves start_time and end_time as they were;
\* any other selection changes only the selected bound, to the timestamp of
\* the picked entry of the selected race's change list; so the range a
\* selection stores always has start_time < end_time.
C28_SelectionKeepsOrder ==
  [][(Ran("select_start_selector") \/ Ran("select_end_selector")) =>
       IF ui.analysis_result = None \/ ui.current_state # ANALYZE_STATE
       THEN RangeKept
       ELSE /\ Ran("select_start_selector") =>
                 IF StrGeq(Picked, ui.end_time) THEN RangeKept /\ ErrorShown
                 ELSE /\ ui'.start_time = Picked /\ ui'.end_time = ui.end_time
                      /\ StrLess(ui'.start_time, ui'.end_time)
            /\ Ran("select_end_selector") =>
                 IF StrLeq(Picked, ui.start_time) THEN RangeKept /\ ErrorShown
                 ELSE /\ ui'.end_time = Picked /\ ui'.start_time = ui.start_time
                      /\ StrLess(ui'.start_time, ui'.end_time)]_vars

\* an end selection was refused against a start_time that an earlier start
\* selection had moved
C28_Witness ==
  /\ handled.handler = "select_end_selector"
  /\ handled.did = <<"error box">>
  /\ ui.selected_race \in DOMAIN ui.analysis_result[1].race_times
  /\ ui.start_time # ui.analysis_result[1].race_times[ui.selected_race].start
  /\ StrLess(ui.start_time, ui.end_time)

\* ---------------------------------------------------------------- C29
\* C29: the server never holds two data sources for one csv path: an upload
\* that resolves to the path of a data source an earlier upload created
\* finds that data source and creates none.
C29_OneDatasourcePerPath ==
  \A k, m \in DOMAIN grafana.datasources :
    grafana.datasources[k].url = grafana.datasources[m].url => k = m

\* ---------------------------------------------------------------- C30
\* the dashboards of the server that have the title
Titled(title) == {k \in DOMAIN grafana.dashboards : grafana.dashboards[k].title = title}

NextServer ==
  \/ ClickAnalyze
  \/ ClickUploadIn(DOMAIN UserAnswer)
  \/ ClickDeleteAllIn(DOMAIN DeleteAnswers)
  \/ ClickBrowse({"race.csv"})
  \/ EditTitle
  \/ EditGrName

SpecServer == Init /\ [][NextServer]_vars

\* what the last handler did, as a set
DidSet == {handled.did[k] : k \in DOMAIN handled.did}

\* what is left on the server of the kind of item a delete_all function deletes
LeftOf(call) ==
  IF call = "delete_all_dashboards" THEN grafana.dashboards ELSE grafana.datasources

\* the counts of every result of the last click on the delete button add up to
\* the number of listed items, and the result is a success exactly when no
\* deletion failed
C31_CountsAddUp ==
  handled.handler = "click_delete_all_btn" =>
    \A k \in DOMAIN handled.results :
      LET r == handled.results[k]
      IN  /\ r.success_count + r.fail_count = r.listed
          /\ r.overall_success <=> r.fail_count = 0

\* C31: delete_all_dashboards and delete_all_datasources return success
\* exactly when every item the server held was deleted by the call: the two
\* counts add up to the number of listed items, success means that no deletion
\* failed, and a call that could not list the items does not return success
C31_SuccessMeansAllDeleted ==
  handled.handler = "click_delete_all_btn" =>
    \A k \in DOMAIN handled.results :
      LET r == handled.results[k]
      IN  /\ r.success_count + r.fail_count = r.listed
          /\ r.overall_success <=> r.fail_count = 0
          /\ r.overall_success <=> LeftOf(r.call) = <<>>
          /\ DeleteAnswers[handled.arg[2]].list # Response(200) => ~r.overall_success

\* the last handler was a click on upload that reached the connection check
ConnectionChecked == handled.handler = "click_upload" /\ "GET /api/user" \in DidSet

\* C32: check_connection returns (True, message) exactly when GET /api/user
\* is answered with status 200, returns (False, message) with a message for
\* every other status, timeout or connection failure, and no exception of the
\* request leaves it: the upload goes on to load the dashboard json exactly
\* after a 200, shows the error otherwise, and ends without an exception
C32_ConnectionCheck ==
  ConnectionChecked =>
    LET answer == UserAnswer[handled.arg[1]]
        returned == check_connection(answer)
    IN  /\ handled.exc = "" /\ returned.exc = ""
        /\ returned.ok <=> answer = Response(200)
        /\ returned.message # ""
        /\ "load json" \in DidSet <=> answer = Response(200)
        /\ answer # Response(200) => "error box" \in DidSet /\ ui.analyze_button

\* an upload whose connection check was answered with status 500, which
\* raise_for_status turns into an exception, has shown the error and returned
C32_Witness ==
  /\ ConnectionChecked
  /\ handled.arg = <<"servererror">>
  /\ "error box" \in DidSet
  /\ handled.exc = ""

\* ---------------------------------------------------------------------------
\* the window and a configuration file that cannot always be written
\* ---------------------------------------------------------------------------

\* the files the user picks while config.ini is written, refused or truncated
ConfigPicks == {"", "race.csv", "plain.csv", "50%.csv"}

NextConfig ==
  \/ ClickAnalyze
  \/ ClickClear
  \/ ClickBrowseOn(ConfigPicks, DiskOutcomes)
  \/ EditTitle
  \/ EditCsvPath

SpecConfig == Init /\ [][NextConfig]_vars

\* what the file config.ini holds for an option, None when it holds none
OnDisk(key) ==
  IF optionxform[key] \in DOMAIN config.disk THEN config.disk[optionxform[key]]
  ELSE NoneStr

\* the last handler called ConfigManager.set, and what set returned
SetReturned == handled.handler = "_select_csv_path" /\ handled.results # <<>>
SetResult == handled.results[1]

\* set returns (True, None) exactly when the file was written: the value is on
\* disk then, and a failed set returns a message
C33_ReturnTellsWrite ==
  SetReturned =>
    /\ SetResult.ok <=> handled.arg[2] = "written"
    /\ SetResult.ok => SetResult.message = "" /\ OnDisk("LAST_CSV_PATH") = handled.arg[1]
    /\ ~SetResult.ok => SetResult.message # ""

\* C33: ConfigManager.set returns (True, None) when the value was written to
\* disk and (False, message) when the write failed; a failed set leaves the
\* configuration in memory as it was before the call, and get returns no
\* value that is not on disk
C33_FailedSetKeepsMemory ==
  /\ [](C33_ReturnTellsWrite)
  /\ [](\A key \in DOMAIN optionxform : config_get(config, key) = OnDisk(key))
  /\ [][(handled'.handler = "_select_csv_path" /\ handled'.results # <<>>
         /\ ~handled'.results[1].ok) => config'.memory = config.memory]_vars

====
